---- MODULE Spec2Model ----
(***************************************************************************)
(* Model of the encrypted-document subsystem of textX (client side):       *)
(*   - the encryption utilities (deriveKey, encryptText, decryptText,      *)
(*     isEncryptedData) of @utils/encryption,                              *)
(*   - the envelope format helpers (formatEncryptedForSave,                *)
(*     parseEncryptedFromSave) of EncryptionManager.jsx,                   *)
(*   - the open/save workflow of EditorPage.jsx over the zustand store.    *)
(*                                                                         *)
(* JavaScript strings are sequences of UTF-16 code units.  The platform    *)
(* primitives the code calls are modelled as follows:                      *)
(*   TextEncoder / TextDecoder : computed (UTF-8, USVString conversion,    *)
(*                               BOM removal on decode);                   *)
(*   btoa / atob               : computed (forgiving-base64 decode);       *)
(*   JSON.parse / stringify    : a text is either raw (not JSON) or a JSON *)
(*                               text denoting a value; field values are   *)
(*                               kept as code-unit sequences;              *)
(*   crypto.subtle PBKDF2      : an ideal key derivation, the key is the   *)
(*                               opaque pair (password bytes, salt bytes); *)
(*   crypto.subtle AES-GCM     : an ideal AEAD, a table of the encryptions *)
(*                               made so far (variable oracle);            *)
(*   crypto.getRandomValues    : an ideal generator, values never repeat   *)
(*                               (variable rng holds the values drawn).    *)
(***************************************************************************)
EXTENDS Integers, Sequences, FiniteSets, TLC

\* ------------------------------------------------------------------ bounds
\* Longest plaintext (in code units) drawn in the codec experiments.
MaxPlainLen == 2
\* Number of distinct values the random generator can hand out for salts
\* and for ivs (each encryption consumes one of each).
MaxRand == 2

\* The number of editor operations in one behaviour.
MaxSteps == 7

\* ------------------------------------------------- JavaScript string model
\* The value of a property that is absent (JavaScript undefined).
Undefined == << -1 >>

EnvelopeFields == {"encrypted", "salt", "iv", "algorithm", "version", "createdAt"}

NoFields == [f \in EnvelopeFields |-> Undefined]

\* A text that is not valid JSON, given by its code units.
Raw(u) == [t |-> "raw", u |-> u, o |-> << >>]

\* A JSON text denoting a value of type ty ("null", "number", "string",
\* "array", "object"); o gives the object's properties.
JsonText(ty, o) == [t |-> ty, u |-> << >>, o |-> o]

\* 'AES-256-GCM' and '1.0' as code units.
ALG_AES_256_GCM == << 65, 69, 83, 45, 50, 53, 54, 45, 71, 67, 77 >>
VERSION_1_0 == << 49, 46, 48 >>

\* DEFAULT_ENCRYPTION_PASSWORD = 'textx_default_key_2024'
DEFAULT_ENCRYPTION_PASSWORD ==
  Raw(<< 116, 101, 120, 116, 120, 95, 100, 101, 102, 97, 117, 108, 116, 95,
         107, 101, 121, 95, 50, 48, 50, 52 >>)

getDefaultPassword == DEFAULT_ENCRYPTION_PASSWORD

\* ------------------------------------------------------------------ UTF-8
IsHighSurrogate(c) == c >= 55296 /\ c <= 56319
IsLowSurrogate(c)  == c >= 56320 /\ c <= 57343

\* The UTF-8 bytes of one code point.
Utf8OfCodePoint(cp) ==
  IF cp < 128 THEN << cp >>
  ELSE IF cp < 2048 THEN << 192 + (cp \div 64), 128 + (cp % 64) >>
  ELSE IF cp < 65536 THEN
    << 224 + (cp \div 4096), 128 + ((cp \div 64) % 64), 128 + (cp % 64) >>
  ELSE << 240 + (cp \div 262144), 128 + ((cp \div 4096) % 64),
          128 + ((cp \div 64) % 64), 128 + (cp % 64) >>

\* TextEncoder.encode: the string is first converted to scalar values (a
\* surrogate pair becomes one code point, a lone surrogate becomes U+FFFD).
RECURSIVE Utf8Encode(_)
Utf8Encode(u) ==
  IF u = << >> THEN << >>
  ELSE LET c == Head(u) IN
    IF IsHighSurrogate(c) /\ Len(u) >= 2 /\ IsLowSurrogate(u[2])
    THEN Utf8OfCodePoint(65536 + (c - 55296) * 1024 + (u[2] - 56320))
           \o Utf8Encode(Tail(Tail(u)))
    ELSE IF IsHighSurrogate(c) \/ IsLowSurrogate(c)
    THEN Utf8OfCodePoint(65533) \o Utf8Encode(Tail(u))
    ELSE Utf8OfCodePoint(c) \o Utf8Encode(Tail(u))

IsCont(b) == b >= 128 /\ b <= 191

\* The code units of one code point.
CodeUnitsOf(cp) ==
  IF cp < 65536 THEN << cp >>
  ELSE << 55296 + ((cp - 65536) \div 1024), 56320 + ((cp - 65536) % 1024) >>

\* UTF-8 decode without BOM handling; an ill-formed byte yields U+FFFD.
RECURSIVE Utf8DecodeRaw(_)
Utf8DecodeRaw(b) ==
  IF b = << >> THEN << >>
  ELSE LET x == Head(b) IN
    IF x < 128 THEN << x >> \o Utf8DecodeRaw(Tail(b))
    ELSE IF x >= 194 /\ x <= 223 /\ Len(b) >= 2 /\ IsCont(b[2])
    THEN << (x - 192) * 64 + (b[2] - 128) >> \o Utf8DecodeRaw(SubSeq(b, 3, Len(b)))
    ELSE IF x >= 224 /\ x <= 239 /\ Len(b) >= 3 /\ IsCont(b[2]) /\ IsCont(b[3])
            /\ (x = 224 => b[2] >= 160) /\ (x = 237 => b[2] <= 159)
    THEN << (x - 224) * 4096 + (b[2] - 128) * 64 + (b[3] - 128) >>
           \o Utf8DecodeRaw(SubSeq(b, 4, Len(b)))
    ELSE IF x >= 240 /\ x <= 244 /\ Len(b) >= 4 /\ IsCont(b[2]) /\ IsCont(b[3])
            /\ IsCont(b[4]) /\ (x = 240 => b[2] >= 144) /\ (x = 244 => b[2] <= 143)
    THEN CodeUnitsOf((x - 240) * 262144 + (b[2] - 128) * 4096
                       + (b[3] - 128) * 64 + (b[4] - 128))
           \o Utf8DecodeRaw(SubSeq(b, 5, Len(b)))
    ELSE << 65533 >> \o Utf8DecodeRaw(Tail(b))

\* TextDecoder.decode with the default options (ignoreBOM false): a leading
\* byte order mark is consumed and does not appear in the result.
Utf8Decode(b) ==
  IF Len(b) >= 3 /\ b[1] = 239 /\ b[2] = 187 /\ b[3] = 191
  THEN Utf8DecodeRaw(SubSeq(b, 4, Len(b)))
  ELSE Utf8DecodeRaw(b)

\* stringToArrayBuffer: a JSON text of the model is ASCII and is its own
\* byte form; a raw text is encoded; null is converted to the text 'null'
\* before it is encoded.
stringToArrayBuffer(str) ==
  IF str.t # "raw" THEN str
  ELSE IF str.u = Undefined THEN [str EXCEPT !.u = << 110, 117, 108, 108 >>]
  ELSE [str EXCEPT !.u = Utf8Encode(str.u)]

\* arrayBufferToString
arrayBufferToString(buffer) ==
  IF buffer.t = "raw" THEN [buffer EXCEPT !.u = Utf8Decode(buffer.u)] ELSE buffer

\* ----------------------------------------------------------------- base64
\* The character (ASCII code) of a 6-bit value.
B64Char(i) ==
  IF i < 26 THEN 65 + i
  ELSE IF i < 52 THEN 97 + (i - 26)
  ELSE IF i < 62 THEN 48 + (i - 52)
  ELSE IF i = 62 THEN 43 ELSE 47

IsB64Char(c) ==
  \/ c >= 65 /\ c <= 90
  \/ c >= 97 /\ c <= 122
  \/ c >= 48 /\ c <= 57
  \/ c = 43
  \/ c = 47

\* The 6-bit value of a base64 character.
B64Value(c) ==
  IF c >= 65 /\ c <= 90 THEN c - 65
  ELSE IF c >= 97 /\ c <= 122 THEN c - 97 + 26
  ELSE IF c >= 48 /\ c <= 57 THEN c - 48 + 52
  ELSE IF c = 43 THEN 62 ELSE 63

\* btoa of a byte string.
RECURSIVE btoa(_)
btoa(b) ==
  IF b = << >> THEN << >>
  ELSE IF Len(b) = 1 THEN
    << B64Char(b[1] \div 4), B64Char((b[1] % 4) * 16), 61, 61 >>
  ELSE IF Len(b) = 2 THEN
    << B64Char(b[1] \div 4), B64Char((b[1] % 4) * 16 + (b[2] \div 16)),
       B64Char((b[2] % 16) * 4), 61 >>
  ELSE
    << B64Char(b[1] \div 4), B64Char((b[1] % 4) * 16 + (b[2] \div 16)),
       B64Char((b[2] % 16) * 4 + (b[3] \div 64)), B64Char(b[3] % 64) >>
      \o btoa(SubSeq(b, 4, Len(b)))

IsAsciiWhitespace(c) == c \in {9, 10, 12, 13, 32}

\* The bytes of a run of base64 characters whose length is not 1 modulo 4;
\* the bits left over at the end (4 of 12, 2 of 18) are discarded unchecked.
RECURSIVE B64DecodeChars(_)
B64DecodeChars(d) ==
  IF Len(d) < 2 THEN << >>
  ELSE LET v1 == B64Value(d[1])
           v2 == B64Value(d[2])
       IN IF Len(d) = 2 THEN << v1 * 4 + (v2 \div 16) >>
          ELSE LET v3 == B64Value(d[3]) IN
            IF Len(d) = 3
            THEN << v1 * 4 + (v2 \div 16), (v2 % 16) * 16 + (v3 \div 4) >>
            ELSE << v1 * 4 + (v2 \div 16), (v2 % 16) * 16 + (v3 \div 4),
                    (v3 % 4) * 64 + B64Value(d[4]) >>
                   \o B64DecodeChars(SubSeq(d, 5, Len(d)))

\* atob (forgiving-base64 decode): [ok, bytes].
atob(data) ==
  LET d1 == SelectSeq(data, LAMBDA c : ~IsAsciiWhitespace(c))
      n1 == Len(d1)
      d2 == IF n1 % 4 = 0 /\ n1 >= 1 /\ d1[n1] = 61
            THEN IF n1 >= 2 /\ d1[n1 - 1] = 61
                 THEN SubSeq(d1, 1, n1 - 2)
                 ELSE SubSeq(d1, 1, n1 - 1)
            ELSE d1
  IN IF Len(d2) % 4 = 1 \/ \E i \in 1..Len(d2) : ~IsB64Char(d2[i])
     THEN [ok |-> FALSE, bytes |-> << >>]
     ELSE [ok |-> TRUE, bytes |-> B64DecodeChars(d2)]

\* arrayBufferToBase64
arrayBufferToBase64(buffer) == btoa(buffer)

\* base64ToArrayBuffer: atob applied to the property value converted to a
\* string (an absent property gives the text 'undefined', which atob rejects).
base64ToArrayBuffer(base64) ==
  IF base64 = Undefined THEN [ok |-> FALSE, bytes |-> << >>] ELSE atob(base64)

\* ------------------------------------------------------- platform crypto
VARIABLES
  oracle,   \* the ideal AEAD: the encryptions made so far, [key, iv, pt]
  rng,      \* the ideal generator: [salts, ivs], the values handed out
  cx,       \* the codec experiment: one encryptText, then one decryptText
  fx        \* the format experiment: classification and serialization

\* crypto.getRandomValues(new Uint8Array(n)): the n bytes of draw r.
RandomBytes(n, r) == [i \in 1..n |-> (r * 16 + i * 7 + n) % 256]

\* The draws the generator can still hand out.
FreshSalts == (1..MaxRand) \ rng.salts
FreshIvs   == (1..MaxRand) \ rng.ivs

\* The byte length of a buffer; a JSON text is taken in its compact form.
ByteLength(buffer) ==
  IF buffer.t = "raw" THEN Len(buffer.u)
  ELSE IF buffer.t = "null" THEN 4
  ELSE IF buffer.t # "object" THEN 2
  ELSE LET present == {f \in EnvelopeFields : buffer.o[f] # Undefined}
           RECURSIVE Sum(_)
           Sum(S) == IF S = {} THEN 0
                     ELSE LET f == CHOOSE x \in S : TRUE
                          IN Len(buffer.o[f]) + 12 + Sum(S \ {f})
       IN 2 + Sum(present)

\* The ciphertext (with its 16-byte tag) of the n-th encryption.
CipherBytes(n, len) == [i \in 1..(len + 16) |-> (n * 16 + i * 11 + 5) % 256]

\* crypto.subtle.encrypt({name: 'AES-GCM', iv}, key, data)
AesGcmEncrypt(orc, key, iv, data) ==
  [orc |-> Append(orc, [key |-> key, iv |-> iv, pt |-> data]),
   ct  |-> CipherBytes(Len(orc) + 1, ByteLength(data))]

\* crypto.subtle.decrypt({name: 'AES-GCM', iv}, key, data): succeeds exactly
\* on a ciphertext made by encrypt under the same key and iv.
AesGcmDecrypt(orc, key, iv, data) ==
  LET hits == {n \in 1..Len(orc) :
                 /\ orc[n].key = key
                 /\ orc[n].iv = iv
                 /\ CipherBytes(n, ByteLength(orc[n].pt)) = data}
  IN IF hits = {} THEN [ok |-> FALSE, pt |-> Raw(<< >>)]
     ELSE [ok |-> TRUE, pt |-> orc[CHOOSE n \in hits : TRUE].pt]

\* ------------------------------------------------------ @utils/encryption
\* deriveKey: PBKDF2 (100000 iterations, SHA-256) of the encoded password
\* and the salt; any password and any salt length are accepted.
deriveKey(password, salt) ==
  [pw |-> stringToArrayBuffer(password).u, salt |-> salt]

\* encryptText with a salt and an iv that are fixed instead of drawn.
encryptTextFixedSaltIv(plaintext, password, salt, iv, orc) ==
  LET salt0 == RandomBytes(16, 0)
      iv0 == RandomBytes(12, 0)
      key == deriveKey(password, salt0)
      enc == AesGcmEncrypt(orc, key, iv0, stringToArrayBuffer(plaintext))
  IN [data |-> [encrypted |-> arrayBufferToBase64(enc.ct),
                salt      |-> arrayBufferToBase64(salt0),
                iv        |-> arrayBufferToBase64(iv0),
                algorithm |-> ALG_AES_256_GCM,
                version   |-> VERSION_1_0,
                createdAt |-> Undefined],
      orc  |-> enc.orc]

\* encryptText with the encoded password taken as the salt.
encryptTextPasswordSalt(plaintext, password, salt, iv, orc) ==
  LET salt0 == stringToArrayBuffer(password).u
      key == deriveKey(password, salt0)
      enc == AesGcmEncrypt(orc, key, iv, stringToArrayBuffer(plaintext))
  IN [data |-> [encrypted |-> arrayBufferToBase64(enc.ct),
                salt      |-> arrayBufferToBase64(salt0),
                iv        |-> arrayBufferToBase64(iv),
                algorithm |-> ALG_AES_256_GCM,
                version   |-> VERSION_1_0,
                createdAt |-> Undefined],
      orc  |-> enc.orc]

\* encryptText with the two random draws (salt, iv) made explicit:
\* [data, orc], data the returned object.
encryptText(plaintext, password, salt, iv, orc) ==
  LET key == deriveKey(password, salt)
      enc == AesGcmEncrypt(orc, key, iv, stringToArrayBuffer(plaintext))
  IN [data |-> [encrypted |-> arrayBufferToBase64(enc.ct),
                salt      |-> arrayBufferToBase64(salt),
                iv        |-> arrayBufferToBase64(iv),
                algorithm |-> ALG_AES_256_GCM,
                version   |-> VERSION_1_0,
                createdAt |-> Undefined],
      orc  |-> enc.orc]

Failure(why) == [ok |-> FALSE, text |-> Raw(<< >>), err |-> why]

\* decryptText without the test of the algorithm.
decryptTextAnyAlgorithm(encryptedData, password, orc) ==
  LET encryptedBuffer == base64ToArrayBuffer(encryptedData.encrypted)
      saltBuffer      == base64ToArrayBuffer(encryptedData.salt)
      ivBuffer        == base64ToArrayBuffer(encryptedData.iv)
  IN IF ~encryptedBuffer.ok \/ ~saltBuffer.ok \/ ~ivBuffer.ok
     THEN Failure("invalid character")
     ELSE LET key == deriveKey(password, saltBuffer.bytes)
              dec == AesGcmDecrypt(orc, key, ivBuffer.bytes, encryptedBuffer.bytes)
          IN IF ~dec.ok THEN Failure("operation error")
             ELSE [ok |-> TRUE, text |-> arrayBufferToString(dec.pt), err |-> ""]

\* decryptText: [ok, text, err]; err is the cause wrapped in the thrown
\* error ('decrypt failed: <cause>').
decryptText(encryptedData, password, orc) ==
  IF encryptedData.algorithm # ALG_AES_256_GCM THEN Failure("unsupported algorithm")
  ELSE LET encryptedBuffer == base64ToArrayBuffer(encryptedData.encrypted)
           saltBuffer      == base64ToArrayBuffer(encryptedData.salt)
           ivBuffer        == base64ToArrayBuffer(encryptedData.iv)
       IN IF ~encryptedBuffer.ok \/ ~saltBuffer.ok \/ ~ivBuffer.ok
          THEN Failure("invalid character")
          ELSE LET key == deriveKey(password, saltBuffer.bytes)
                   dec == AesGcmDecrypt(orc, key, ivBuffer.bytes, encryptedBuffer.bytes)
               IN IF ~dec.ok THEN Failure("operation error")
                  ELSE [ok |-> TRUE, text |-> arrayBufferToString(dec.pt), err |-> ""]

\* JavaScript truthiness of a string-valued property.
Truthy(v) == v # Undefined /\ v # << >>

\* isEncryptedData (the truthiness of what it returns)
isEncryptedData(content) ==
  IF content.t = "raw" THEN FALSE                  \* JSON.parse throws
  ELSE /\ content.t # "null"                       \* parsed && ...
       /\ Truthy(content.o.encrypted)
       /\ Truthy(content.o.salt)
       /\ Truthy(content.o.iv)
       /\ content.o.algorithm = ALG_AES_256_GCM

\* ------------------------------------------------- EncryptionManager.jsx
\* formatEncryptedForSave without the spread of encryptedData.
formatEncryptedForSaveNoSpread(encryptedData, now) ==
  JsonText("object", [NoFields EXCEPT !.createdAt = now, !.version = VERSION_1_0])

\* formatEncryptedForSave; now is new Date().toISOString().
formatEncryptedForSave(encryptedData, now) ==
  JsonText("object", [encryptedData EXCEPT !.createdAt = now,
                                           !.version = VERSION_1_0])

\* parseEncryptedFromSave: [isNull, data]
parseEncryptedFromSave(fileContent) ==
  IF fileContent.t = "raw" THEN [isNull |-> TRUE, data |-> NoFields]    \* JSON.parse throws
  ELSE IF fileContent.t = "null" THEN [isNull |-> TRUE, data |-> NoFields] \* TypeError, caught
  ELSE IF Truthy(fileContent.o.encrypted) /\ Truthy(fileContent.o.salt)
            /\ Truthy(fileContent.o.iv)
       THEN [isNull |-> FALSE, data |-> fileContent.o]
       ELSE [isNull |-> TRUE, data |-> NoFields]

\* ------------------------------------------------------ codec experiments
\* Plaintexts: the texts of at most MaxPlainLen code units over 'h' and
\* U+FEFF.
PlainAlphabet == {104, 65279}

RECURSIVE SeqsUpTo(_, _)
SeqsUpTo(A, n) ==
  IF n = 0 THEN {<< >>}
  ELSE LET shorter == SeqsUpTo(A, n - 1)
       IN shorter \cup {Append(q, a) : q \in {x \in shorter : Len(x) = n - 1}, a \in A}

Plaintexts == {Raw(u) : u \in SeqsUpTo(PlainAlphabet, MaxPlainLen)}

\* Passwords: the default one, 'Secret', U+D800 'ecret', U+FFFD 'ecret'.
Passwords ==
  { getDefaultPassword,
    Raw(<< 83, 101, 99, 114, 101, 116 >>),
    Raw(<< 55296, 101, 99, 114, 101, 116 >>),
    Raw(<< 65533, 101, 99, 114, 101, 116 >>) }

NoResult == [ok |-> FALSE, text |-> Raw(<< >>), err |-> "none"]

CxStart ==
  [pc |-> "start", plaintext |-> Raw(<< >>), password |-> Raw(<< >>),
   original |-> NoFields, data |-> NoFields, tried |-> Raw(<< >>),
   res |-> NoResult]

\* c with bit number bit (0..7) flipped.
FlipBit(c, bit) ==
  LET w == 2 ^ bit
  IN IF (c \div w) % 2 = 1 THEN c - w ELSE c + w

\* The experiment calls encryptText(P, K).
CxEncrypt ==
  /\ cx.pc = "start"
  /\ \E P \in Plaintexts, K \in Passwords, s \in FreshSalts, v \in FreshIvs :
       LET r == encryptText(P, K, RandomBytes(16, s), RandomBytes(12, v), oracle)
       IN /\ oracle' = r.orc
          /\ rng' = [salts |-> rng.salts \cup {s}, ivs |-> rng.ivs \cup {v}]
          /\ cx' = [CxStart EXCEPT !.pc = "encrypted", !.plaintext = P,
                                   !.password = K, !.original = r.data,
                                   !.data = r.data]

\* The experiment calls decryptText(envelope, B) on the envelope as returned.
CxDecrypt ==
  /\ cx.pc = "encrypted"
  /\ \E B \in Passwords :
       cx' = [cx EXCEPT !.pc = "decrypted", !.tried = B,
                        !.res = decryptText(cx.data, B, oracle)]
  /\ UNCHANGED << oracle, rng >>

\* One bit of the envelope's ciphertext or iv is changed, and decryptText is
\* called with the password the envelope was made with.
CxTamperDecrypt ==
  /\ cx.pc = "encrypted"
  /\ \E f \in {"encrypted", "iv"} :
       \E i \in 1..Len(cx.data[f]), bit \in 0..7 :
         LET changed == [cx.data EXCEPT ![f][i] = FlipBit(cx.data[f][i], bit)]
         IN cx' = [cx EXCEPT !.pc = "tampered", !.data = changed,
                             !.tried = cx.password,
                             !.res = decryptText(changed, cx.password, oracle)]
  /\ UNCHANGED << oracle, rng >>

codecVars == << oracle, rng, cx >>

\* ----------------------------------------------------- format experiments
RequiredFields == {"encrypted", "salt", "iv", "algorithm", "version"}

\* 'ROT13', an algorithm identifier the code does not know.
ALG_OTHER == << 82, 79, 84, 49, 51 >>

\* 'QQ==' (one byte), a well-formed base64 value.
B64_SAMPLE == << 81, 81, 61, 61 >>

\* An ISO timestamp as returned by new Date().toISOString().
Timestamps == { << 50, 48, 50, 52, 45, 48, 49, 45, 48, 49, 84, 48, 48, 58, 48,
                   48, 58, 48, 48, 46, 48, 48, 48, 90 >> }

\* The JSON object with the properties S, its algorithm being alg.
SampleObject(S, alg, stamp) ==
  [f \in EnvelopeFields |->
     IF f = "createdAt" THEN stamp
     ELSE IF f \notin S THEN Undefined
     ELSE IF f = "algorithm" THEN alg
     ELSE IF f = "version" THEN VERSION_1_0
     ELSE B64_SAMPLE]

\* Markdown texts: '', 'h', '# h'.
MarkdownTexts == {Raw(<< >>), Raw(<< 104 >>), Raw(<< 35, 32, 104 >>)}

NonObjectJson == {JsonText(ty, NoFields) : ty \in {"null", "number", "string", "array"}}

ObjectJson ==
  {JsonText("object", SampleObject(S, alg, stamp)) :
     S \in SUBSET RequiredFields, alg \in {ALG_AES_256_GCM, ALG_OTHER},
     stamp \in Timestamps \cup {Undefined}}

ClassifierInputs == MarkdownTexts \cup NonObjectJson \cup ObjectJson

FxStart ==
  [pc |-> "start", text |-> Raw(<< >>), isEncrypted |-> FALSE,
   parsed |-> [isNull |-> TRUE, data |-> NoFields],
   envelope |-> NoFields, now |-> Undefined]

\* The experiment classifies one text with both classifiers.
FxClassify ==
  /\ fx.pc = "start"
  /\ cx.pc = "start"
  /\ \E text \in ClassifierInputs :
       fx' = [FxStart EXCEPT !.pc = "classified", !.text = text,
                             !.isEncrypted = isEncryptedData(text),
                             !.parsed = parseEncryptedFromSave(text)]
  /\ UNCHANGED codecVars

\* The experiment serializes an envelope returned by encryptText and parses
\* the text back.
FxRoundTrip ==
  /\ fx.pc = "start"
  /\ cx.pc = "encrypted"
  /\ \E now \in Timestamps :
       LET text == formatEncryptedForSave(cx.data, now)
       IN fx' = [FxStart EXCEPT !.pc = "roundtrip", !.text = text,
                                !.isEncrypted = isEncryptedData(text),
                                !.parsed = parseEncryptedFromSave(text),
                                !.envelope = cx.data, !.now = now]
  /\ UNCHANGED codecVars

\* ------------------------------------------------- utility experiments
VARIABLES
  ux    \* the experiment on one call of a utility: its inputs and its result

\* ------------------------------------------------------------ the editor
VARIABLES
  doc,              \* useAppStore: currentDocument
  dialog,           \* EditorPage: encryptionDialog
  showSaveDialog,   \* EditorPage: showSaveDialog
  currentPassword,  \* EditorPage: currentPasswordRef.current
  files,            \* the disk: the bytes of each file
  timer,            \* EditorPage: the pending auto-save timeout and its closure
  last,             \* history: what the last handler did
  written,          \* history: the envelopes put on disk, oldest first
  fmeta,            \* history: per file, the password of the envelope it holds
  steps             \* the number of editor operations so far

wfVars == << doc, dialog, showSaveDialog, currentPassword, files, timer, last,
             written, fmeta, steps >>

vars == << oracle, rng, cx, fx, ux, doc, dialog, showSaveDialog, currentPassword,
           files, timer, last, written, fmeta, steps >>

\* null, as the value of currentPasswordRef.current or of a password argument.
NullPassword == Raw(Undefined)

\* null, as the value of filePath or fileHandle.
NoFile == "null"

FileNames == {"a.md", "b.md"}

\* The passwords the user types in the editor: the default one and 'Secret'.
UserPasswords == {getDefaultPassword, Raw(<< 83, 101, 99, 114, 101, 116 >>)}

\* The texts the user types in the editor: '' and U+FEFF 'h'.
TypedContents == {Raw(<< >>), Raw(<< 65279, 104 >>)}

\* writable.write(string): the bytes put on disk.
FileWrite(text) == stringToArrayBuffer(text)

\* file.text(): the text read from disk.
FileText(bytes) == arrayBufferToString(bytes)

\* The code units String.prototype.trim removes.
WhiteSpace ==
  {9, 10, 11, 12, 13, 32, 160, 5760, 8232, 8233, 8239, 8287, 12288, 65279}
    \cup (8192..8202)

\* !content.trim()
IsBlank(content) ==
  content.t = "raw" /\ \A i \in 1..Len(content.u) : content.u[i] \in WhiteSpace

\* useAppStore: the initial currentDocument.
InitialDocument ==
  [content |-> Raw(<< >>), filePath |-> NoFile, fileName |-> "untitled.md",
   fileHandle |-> NoFile, isModified |-> FALSE, isEncrypted |-> FALSE,
   lastSaved |-> "null"]

\* useAppStore.setDocumentContent
setDocumentContent(d, content) ==
  [d EXCEPT !.content = content, !.isModified = (d.content # content)]

\* useAppStore.setDocumentInfo
setDocumentInfo(d, info) ==
  [k \in DOMAIN d |-> IF k \in DOMAIN info THEN info[k] ELSE d[k]]

\* useAppStore.markDocumentSaved
markDocumentSaved(d) == [d EXCEPT !.isModified = FALSE, !.lastSaved = "now"]

NullData == [isNull |-> TRUE, data |-> NoFields]

\* EditorPage: the initial encryptionDialog, and the value handleEncryptionClose
\* sets.
DialogClosed ==
  [isOpen |-> FALSE, mode |-> "decrypt", encryptedData |-> NullData,
   pendingAction |-> [type |-> "null", file |-> NoFile]]

\* handleOpenDocument without the attempt with the default password: an
\* envelope always opens the password dialog.
handleOpenDocumentNoFallback(content, f, d, pw, dlg, orc) ==
  LET encryptedData == parseEncryptedFromSave(content)
  IN IF ~encryptedData.isNull
     THEN [doc |-> d,
           currentPassword |-> pw,
           dialog |-> [isOpen |-> TRUE, mode |-> "decrypt",
                       encryptedData |-> encryptedData,
                       pendingAction |-> [type |-> "open", file |-> f]],
           tried |-> FALSE, fallbackOk |-> FALSE]
     ELSE [doc |-> setDocumentInfo(setDocumentContent(d, content),
                     [filePath |-> f, fileName |-> f, fileHandle |-> f,
                      isModified |-> FALSE, isEncrypted |-> FALSE,
                      lastSaved |-> "file"]),
           currentPassword |-> NullPassword,
           dialog |-> dlg, tried |-> FALSE, fallbackOk |-> FALSE]

\* handleOpenDocument after the picker returned file f and file.text()
\* returned content: the new [doc, currentPassword, dialog], with tried (a
\* decryptText call was made) and fallbackOk (it succeeded).
handleOpenDocument(content, f, d, pw, dlg, orc) ==
  LET encryptedData == parseEncryptedFromSave(content)
  IN IF ~encryptedData.isNull
     THEN LET dec == decryptText(encryptedData.data, getDefaultPassword, orc)
          IN IF dec.ok
             THEN [doc |-> setDocumentInfo(setDocumentContent(d, dec.text),
                             [filePath |-> f, fileName |-> f, fileHandle |-> f,
                              isModified |-> FALSE, isEncrypted |-> TRUE,
                              lastSaved |-> "file"]),
                   currentPassword |-> getDefaultPassword,
                   dialog |-> dlg, tried |-> TRUE, fallbackOk |-> TRUE]
             ELSE [doc |-> d,
                   currentPassword |-> pw,
                   dialog |-> [isOpen |-> TRUE, mode |-> "decrypt",
                               encryptedData |-> encryptedData,
                               pendingAction |-> [type |-> "open", file |-> f]],
                   tried |-> TRUE, fallbackOk |-> FALSE]
     ELSE [doc |-> setDocumentInfo(setDocumentContent(d, content),
                     [filePath |-> f, fileName |-> f, fileHandle |-> f,
                      isModified |-> FALSE, isEncrypted |-> FALSE,
                      lastSaved |-> "file"]),
           currentPassword |-> NullPassword,
           dialog |-> dlg, tried |-> FALSE, fallbackOk |-> FALSE]

\* handleEncryptionSuccess(result, password) followed by onClose(): the new
\* [doc, currentPassword, dialog].
handleEncryptionSuccess(result, password, d, pw, dlg) ==
  IF dlg.pendingAction.type = "open"
  THEN [doc |-> setDocumentInfo(setDocumentContent(d, result),
                  [filePath |-> dlg.pendingAction.file,
                   fileName |-> dlg.pendingAction.file,
                   fileHandle |-> dlg.pendingAction.file,
                   isModified |-> FALSE, isEncrypted |-> TRUE,
                   lastSaved |-> "file"]),
        currentPassword |-> password, dialog |-> DialogClosed]
  ELSE [doc |-> d, currentPassword |-> pw, dialog |-> DialogClosed]

\* The message of the error decryptText throws, as its parts: the prefix
\* ('decrypt failed: ', in the code's language) and the cause's own message.
DecryptFailedMessage(cause) == << "decrypt failed: ", cause >>

\* handlePasswordSubmit's catch: the text of the error toast for an error with
\* this message (message.includes of the prefix selects the fixed text).
errorMessage(message) ==
  IF \E i \in 1..Len(message) : message[i] = "decrypt failed: "
  THEN "wrong password or file corrupted"
  ELSE message[Len(message)]

\* handlePasswordSubmit showing the cause carried by the error's message.
handlePasswordSubmitShowsCause(password, d, pw, dlg, orc) ==
  LET same(err) == [doc |-> d, currentPassword |-> pw, dialog |-> dlg, ok |-> FALSE,
                    err |-> err]
  IN IF password.u = << >> THEN same("enter a password")
     ELSE IF dlg.mode = "decrypt"
     THEN IF dlg.encryptedData.isNull THEN same(errorMessage(<< "no encrypted data" >>))
          ELSE LET dec == decryptText(dlg.encryptedData.data, password, orc)
               IN IF dec.ok
                  THEN [ok |-> TRUE, err |-> ""]
                         @@ handleEncryptionSuccess(dec.text, password, d, pw, dlg)
                  ELSE same(dec.err)
     ELSE same(errorMessage(<< "unknown mode" >>))

\* handlePasswordSubmit closing the dialog when the password is rejected.
handlePasswordSubmitLockout(password, d, pw, dlg, orc) ==
  LET same(err) == [doc |-> d, currentPassword |-> pw, dialog |-> dlg, ok |-> FALSE,
                    err |-> err]
  IN IF password.u = << >> THEN same("enter a password")
     ELSE IF dlg.mode = "decrypt"
     THEN IF dlg.encryptedData.isNull THEN same("no encrypted data")
          ELSE LET dec == decryptText(dlg.encryptedData.data, password, orc)
               IN IF dec.ok
                  THEN [ok |-> TRUE, err |-> ""]
                         @@ handleEncryptionSuccess(dec.text, password, d, pw, dlg)
                  ELSE [same(errorMessage(DecryptFailedMessage(dec.err))) EXCEPT
                          !.dialog = DialogClosed]
     ELSE same("unknown mode")

\* EncryptionManager.handlePasswordSubmit(password), reached through
\* PasswordInput.handleSubmit: the new [doc, currentPassword, dialog, ok, err],
\* err the message of the error toast ("" when there is none).
handlePasswordSubmit(password, d, pw, dlg, orc) ==
  LET same(err) == [doc |-> d, currentPassword |-> pw, dialog |-> dlg, ok |-> FALSE,
                    err |-> err]
  IN IF password.u = << >> THEN same("enter a password")
     ELSE IF dlg.mode = "decrypt"
     THEN IF dlg.encryptedData.isNull THEN same(errorMessage(<< "no encrypted data" >>))
          ELSE LET dec == decryptText(dlg.encryptedData.data, password, orc)
               IN IF dec.ok
                  THEN [ok |-> TRUE, err |-> ""]
                         @@ handleEncryptionSuccess(dec.text, password, d, pw, dlg)
                  ELSE same(errorMessage(DecryptFailedMessage(dec.err)))
     ELSE same(errorMessage(<< "unknown mode" >>))

\* handleSaveDocument(saveMode, password, isAutoSave) run in a closure whose
\* currentDocument is cd.  st holds [doc, currentPassword, files, oracle,
\* showSaveDialog]; inp holds what the environment supplies: the random draws
\* salt and iv, the time now, the file picked in the save picker ("abort" when
\* the picker is dismissed) and whether the write succeeds.  The result is the
\* new st with wrote (a file was written), target (that file), data (the
\* envelope written) and drew (random values were consumed).
handleSaveDocument(cd, saveMode, password, isAutoSave, st, inp) ==
  LET none == [wrote |-> FALSE, target |-> NoFile, data |-> NullData, drew |-> FALSE]
  IN IF IsBlank(cd.content) THEN st @@ none
     ELSE IF saveMode = "null" THEN [st EXCEPT !.showSaveDialog = TRUE] @@ none
     ELSE
       LET encrypting == saveMode \in {"default", "custom"}
           finalPassword == IF saveMode = "default" THEN getDefaultPassword ELSE password
           enc == encryptText(cd.content, finalPassword, RandomBytes(16, inp.salt),
                              RandomBytes(12, inp.iv), st.oracle)
           contentToSave == IF encrypting THEN formatEncryptedForSave(enc.data, inp.now)
                            ELSE cd.content
           st1 == IF encrypting
                  THEN [st EXCEPT !.oracle = enc.orc, !.currentPassword = finalPassword]
                  ELSE st
           data == IF encrypting THEN [isNull |-> FALSE, data |-> contentToSave.o]
                   ELSE NullData
           failed == st1 @@ [none EXCEPT !.drew = encrypting]
       IN IF cd.filePath = NoFile
          THEN IF inp.pick = "abort" \/ ~inp.writeOk THEN failed
               ELSE [st1 EXCEPT
                       !.files[inp.pick] = FileWrite(contentToSave),
                       !.doc = markDocumentSaved(setDocumentInfo(st1.doc,
                                 [filePath |-> inp.pick, fileName |-> inp.pick,
                                  fileHandle |-> inp.pick, isEncrypted |-> encrypting]))]
                    @@ [wrote |-> TRUE, target |-> inp.pick, data |-> data,
                        drew |-> encrypting]
          ELSE IF cd.fileHandle # NoFile
          THEN IF ~inp.writeOk THEN failed
               ELSE [st1 EXCEPT
                       !.files[cd.fileHandle] = FileWrite(contentToSave),
                       !.doc = markDocumentSaved(st1.doc)]
                    @@ [wrote |-> TRUE, target |-> cd.fileHandle, data |-> data,
                        drew |-> encrypting]
          ELSE failed

\* ------------------------------------------------------- editor actions
NoLast ==
  [op |-> "none", file |-> NoFile, read |-> Raw(<< >>), classified |-> FALSE,
   tried |-> FALSE, fallbackOk |-> FALSE, dialogOpened |-> FALSE,
   mode |-> "null", password |-> NullPassword, err |-> "", env |-> 0,
   fails |-> 0]

\* The place in written of the envelope with the salt and iv of data (0 when
\* data is none of them).
EnvIndex(data) ==
  LET hits == {i \in 1..Len(written) :
                 written[i].salt = data.salt /\ written[i].iv = data.iv}
  IN IF hits = {} THEN 0 ELSE CHOOSE i \in hits : TRUE

\* An envelope made elsewhere under password K, of the text 'h'.
ForeignEnvelope(K) ==
  encryptText(Raw(<< 104 >>), K, RandomBytes(16, 0), RandomBytes(12, 0), << >>)

\* What b.md holds when the editor starts: Markdown, a JSON object with an
\* unknown algorithm, or an envelope made under one of the user's passwords.
InitialDisks ==
  { [bytes |-> FileWrite(Raw(<< 35, 32, 104 >>)), orc |-> << >>,
     pw |-> NullPassword, env |-> << >>],
    [bytes |-> FileWrite(JsonText("object",
                 SampleObject({"encrypted", "salt", "iv", "algorithm"}, ALG_OTHER, Undefined))),
     orc |-> << >>, pw |-> NullPassword, env |-> << >>] }
  \cup
  { [bytes |-> FileWrite(formatEncryptedForSave(ForeignEnvelope(K).data, now)),
     orc |-> ForeignEnvelope(K).orc, pw |-> K,
     env |-> << [salt |-> ForeignEnvelope(K).data.salt,
                 iv |-> ForeignEnvelope(K).data.iv, fresh |-> TRUE,
                 pw |-> K, plain |-> Raw(<< 104 >>)] >>] :
       K \in UserPasswords, now \in Timestamps }

\* handleOpenDocument; the picker returns file f.  Dismissing the picker
\* (AbortError) changes nothing.
OpenDocument ==
  \E f \in FileNames :
    LET content == FileText(files[f])
        r == handleOpenDocument(content, f, doc, currentPassword, dialog, oracle)
        probe == handleOpenDocument(content, f, doc, currentPassword, DialogClosed, oracle)
    IN /\ doc' = r.doc
       /\ currentPassword' = r.currentPassword
       /\ dialog' = r.dialog
       /\ last' = [NoLast EXCEPT
                     !.op = "open", !.file = f, !.read = content,
                     !.classified = ~parseEncryptedFromSave(content).isNull,
                     !.tried = r.tried, !.fallbackOk = r.fallbackOk,
                     !.dialogOpened = probe.dialog.isOpen,
                     !.env = EnvIndex(parseEncryptedFromSave(content).data)]
       /\ UNCHANGED << oracle, rng, showSaveDialog, files, timer, written, fmeta >>

\* The user submits a password in the open password dialog.
PasswordSubmit ==
  /\ dialog.isOpen
  /\ \E password \in UserPasswords :
       LET r == handlePasswordSubmit(password, doc, currentPassword, dialog, oracle)
       IN /\ doc' = r.doc
          /\ currentPassword' = r.currentPassword
          /\ dialog' = r.dialog
          /\ last' = [NoLast EXCEPT !.op = "submit", !.file = dialog.pendingAction.file,
                                    !.fallbackOk = r.ok, !.password = password,
                                    !.err = r.err,
                                    !.fails = IF r.ok THEN last.fails
                                              ELSE last.fails + 1,
                                    !.env = EnvIndex(dialog.encryptedData.data)]
  /\ UNCHANGED << oracle, rng, showSaveDialog, files, timer, written, fmeta >>

\* handleEncryptionClose hiding the dialog without resetting its state.
EncryptionCloseKeepsState ==
  /\ dialog.isOpen
  /\ dialog' = [dialog EXCEPT !.isOpen = FALSE]
  /\ last' = [NoLast EXCEPT !.op = "cancel"]
  /\ UNCHANGED << oracle, rng, doc, currentPassword, showSaveDialog, files, timer,
                  written, fmeta >>

\* handleEncryptionClose: the user cancels the password dialog.
EncryptionClose ==
  /\ dialog.isOpen
  /\ dialog' = DialogClosed
  /\ last' = [NoLast EXCEPT !.op = "cancel"]
  /\ UNCHANGED << oracle, rng, doc, currentPassword, showSaveDialog, files, timer,
                  written, fmeta >>

\* The fields of currentDocument the auto-save callback's closure reads.
Closure(d) == [d EXCEPT !.isModified = FALSE, !.lastSaved = "null"]

\* handleContentChange(newContent), settings.auto_save being on: the timer's
\* callback runs in the closure of the render before the edit.
ContentChange ==
  /\ ~dialog.isOpen /\ ~showSaveDialog
  /\ \E newContent \in TypedContents :
       /\ doc' = setDocumentContent(doc, newContent)
       /\ timer' = IF doc.filePath # NoFile THEN [set |-> TRUE, snap |-> Closure(doc)] ELSE timer
  /\ last' = NoLast
  /\ UNCHANGED << oracle, rng, dialog, currentPassword, showSaveDialog, files,
                  written, fmeta >>

\* handleNewDocument
NewDocument ==
  /\ doc' = setDocumentInfo(setDocumentContent(doc, Raw(<< >>)),
              [filePath |-> NoFile, fileName |-> "untitled.md", fileHandle |-> NoFile,
               isModified |-> FALSE, isEncrypted |-> FALSE, lastSaved |-> "null"])
  /\ last' = [NoLast EXCEPT !.op = "new"]
  /\ UNCHANGED << oracle, rng, dialog, currentPassword, showSaveDialog, files, timer,
                  written, fmeta >>

\* The generator's next draw: the values being arbitrary, the unused draws
\* are handed out in order.
NextDraw(fresh) == {x \in fresh : \A y \in fresh : x <= y}

\* One run of handleSaveDocument in the closure cd, with the environment's
\* inputs chosen; timer is left to the caller.
Save(cd, saveMode, password, isAutoSave, op, closeDialog) ==
  LET active == saveMode # "null" /\ ~IsBlank(cd.content)
      draws == active /\ saveMode \in {"default", "custom"}
  IN \E s \in (IF draws THEN NextDraw(FreshSalts) ELSE {0}),
        v \in (IF draws THEN NextDraw(FreshIvs) ELSE {0}),
        now \in Timestamps,
        pick \in (IF active /\ cd.filePath = NoFile THEN FileNames \cup {"abort"} ELSE {NoFile}),
        writeOk \in (IF active THEN BOOLEAN ELSE {TRUE}) :
       LET st == [doc |-> doc, currentPassword |-> currentPassword, files |-> files,
                  oracle |-> oracle, showSaveDialog |-> showSaveDialog]
           inp == [salt |-> s, iv |-> v, now |-> now, pick |-> pick, writeOk |-> writeOk]
           used == IF saveMode = "default" THEN getDefaultPassword ELSE password
       IN \E r \in {handleSaveDocument(cd, saveMode, password, isAutoSave, st, inp)} :
          /\ doc' = r.doc
          /\ currentPassword' = r.currentPassword
          /\ files' = r.files
          /\ oracle' = r.oracle
          /\ showSaveDialog' = (r.showSaveDialog /\ ~closeDialog)
          /\ rng' = IF r.drew THEN [salts |-> rng.salts \cup {s}, ivs |-> rng.ivs \cup {v}]
                    ELSE rng
          /\ written' =
               IF r.wrote /\ ~r.data.isNull
               THEN Append(written,
                      [salt |-> r.data.data.salt, iv |-> r.data.data.iv,
                       pw |-> used, plain |-> cd.content,
                       fresh |-> /\ r.drew
                                 /\ r.data.data.salt = arrayBufferToBase64(RandomBytes(16, s))
                                 /\ r.data.data.iv = arrayBufferToBase64(RandomBytes(12, v))])
               ELSE written
          /\ fmeta' = IF ~r.wrote THEN fmeta
                      ELSE [fmeta EXCEPT ![r.target] =
                              IF r.data.isNull THEN NullPassword ELSE used]
          /\ last' = [NoLast EXCEPT !.op = op, !.file = r.target, !.mode = saveMode,
                                    !.password = password]
          /\ UNCHANGED dialog

\* Ctrl+S or the save button: handleSaveDocument(null, null, false).
RequestSave ==
  /\ ~dialog.isOpen /\ ~showSaveDialog
  /\ Save(doc, "null", NullPassword, FALSE, "request", FALSE)
  /\ UNCHANGED timer

\* What the user can have typed in the save dialog's password fields: one of
\* the user's passwords, nothing, or 'abc'.
DialogPasswords == UserPasswords \cup {Raw(<< >>), Raw(<< 97, 98, 99 >>)}

\* SaveDialog.handleSave, the checks of a custom password: the message of the
\* error toast, "" when the checks pass.
SaveDialogCheck(saveMode, password, confirmPassword) ==
  IF saveMode # "custom" THEN ""
  ELSE IF password.u = << >> THEN "enter a password"
  ELSE IF password # confirmPassword THEN "passwords differ"
  ELSE IF Len(password.u) < 6 THEN "at least 6 characters"
  ELSE ""

\* SaveDialog.handleSave: when the checks pass, onSave, then onClose, whatever
\* onSave did.
SaveDialogSave ==
  /\ showSaveDialog
  /\ \E saveMode \in {"normal", "default", "custom"} :
       \E password \in (IF saveMode = "custom" THEN DialogPasswords ELSE {Raw(<< >>)}) :
         \E confirmPassword \in {password, Raw(<< >>)} :
           IF SaveDialogCheck(saveMode, password, confirmPassword) = ""
           THEN Save(doc, saveMode, password, FALSE, "save", TRUE)
           ELSE /\ last' = [NoLast EXCEPT
                              !.op = "save", !.mode = saveMode, !.password = password,
                              !.err = SaveDialogCheck(saveMode, password, confirmPassword)]
                /\ UNCHANGED << oracle, rng, doc, dialog, currentPassword,
                                showSaveDialog, files, written, fmeta >>
  /\ UNCHANGED timer

\* handleSaveDocument(saveMode, password, false) called with any arguments:
\* the password is 'Secret', '' or null.
DirectSave ==
  /\ \E saveMode \in {"null", "normal", "default", "custom"} :
       \E password \in {Raw(<< 83, 101, 99, 114, 101, 116 >>), Raw(<< >>), NullPassword} :
         Save(doc, saveMode, password, FALSE, "call", FALSE)
  /\ UNCHANGED timer

\* SaveDialog.handleClose
SaveDialogClose ==
  /\ showSaveDialog
  /\ showSaveDialog' = FALSE
  /\ last' = NoLast
  /\ UNCHANGED << oracle, rng, doc, dialog, currentPassword, files, timer, written,
                  fmeta >>

\* The auto-save timeout set by handleContentChange fires.
AutoSave ==
  /\ timer.set
  /\ timer' = [timer EXCEPT !.set = FALSE]
  /\ IF timer.snap.isEncrypted /\ currentPassword.u # Undefined /\ currentPassword.u # << >>
     THEN Save(timer.snap, "custom", currentPassword, TRUE, "autosave", FALSE)
     ELSE Save(timer.snap, "normal", NullPassword, TRUE, "autosave", FALSE)

\* ------------------------------------------- the server's document routes
\* The properties of the object the server's encryptText returns.
ServerFields == {"encrypted", "iv", "authTag"}

\* The value of property name of a parsed JSON object.
PropOf(o, name) == IF name \in DOMAIN o THEN o[name] ELSE Undefined

\* A hexadecimal digit: the character of a 4-bit value and back.
HexChar(i) == IF i < 10 THEN 48 + i ELSE 97 + (i - 10)

IsHexChar(c) ==
  \/ c >= 48 /\ c <= 57
  \/ c >= 97 /\ c <= 102
  \/ c >= 65 /\ c <= 70

HexValue(c) ==
  IF c >= 48 /\ c <= 57 THEN c - 48
  ELSE IF c >= 97 /\ c <= 102 THEN c - 97 + 10
  ELSE c - 65 + 10

\* buffer.toString('hex') and the 'hex' output encoding of a cipher.
HexEncode(b) ==
  [i \in 1..(2 * Len(b)) |->
     IF i % 2 = 1 THEN HexChar(b[(i + 1) \div 2] \div 16)
     ELSE HexChar(b[i \div 2] % 16)]

\* Buffer.from(str, 'hex') and the 'hex' input encoding: decoding stops at
\* the first pair that is not two hexadecimal digits.
RECURSIVE HexDecode(_)
HexDecode(str) ==
  IF Len(str) < 2 \/ ~IsHexChar(str[1]) \/ ~IsHexChar(str[2]) THEN << >>
  ELSE << HexValue(str[1]) * 16 + HexValue(str[2]) >>
         \o HexDecode(SubSeq(str, 3, Len(str)))

\* The ciphertext and the tag the cipher of crypto.createCipher gives for
\* the n-th distinct pair of password and text: key and iv both come from
\* the password alone, so equal pairs give equal output.
SrvCipherBytes(n, len) == [i \in 1..len |-> (n * 32 + i * 13 + 3) % 256]
SrvTag(n) == [i \in 1..16 |-> (n * 32 + i * 5 + 9) % 256]

\* The place of the pair in the table sorc of pairs met so far (one past its
\* end when the pair is new).
SrvIndex(sorc, key, pt) ==
  LET hits == {n \in 1..Len(sorc) : sorc[n].key = key /\ sorc[n].pt = pt}
  IN IF hits = {} THEN Len(sorc) + 1 ELSE CHOOSE n \in hits : TRUE

\* The server's encryptText(text, password); draw is the random iv it
\* stores: [data, sorc].
serverEncryptText(text, password, draw, sorc) ==
  LET key == stringToArrayBuffer(password).u
      pt == stringToArrayBuffer(text).u
      n == SrvIndex(sorc, key, pt)
  IN [data |-> [encrypted |-> HexEncode(SrvCipherBytes(n, Len(pt))),
                iv        |-> HexEncode(RandomBytes(16, draw)),
                authTag   |-> HexEncode(SrvTag(n))],
      sorc |-> IF n > Len(sorc) THEN Append(sorc, [key |-> key, pt |-> pt]) ELSE sorc]

\* The lengths setAuthTag accepts for a GCM tag.
TagLengths == {4, 8, 12, 13, 14, 15, 16}

\* The server's decryptText(encryptedData, password): [ok, text]; every
\* exception inside it is rethrown as one error.  legacy tells whether the
\* runtime still has crypto.createDecipher.
serverDecryptText(encryptedData, password, sorc, legacy) ==
  LET bad == [ok |-> FALSE, text |-> Raw(<< >>)]
      tagField == PropOf(encryptedData, "authTag")
      encField == PropOf(encryptedData, "encrypted")
  IN IF ~legacy THEN bad                             \* createDecipher is not a function
     ELSE IF ~Truthy(tagField) THEN bad              \* final(): no tag to verify
     ELSE IF encField = Undefined THEN bad           \* update(undefined)
     ELSE LET tag == HexDecode(tagField)
              ct == HexDecode(encField)
              key == stringToArrayBuffer(password).u
              hits == {n \in 1..Len(sorc) :
                         /\ sorc[n].key = key
                         /\ SrvCipherBytes(n, Len(sorc[n].pt)) = ct
                         /\ SubSeq(SrvTag(n), 1, Len(tag)) = tag}
          IN IF Len(tag) \notin TagLengths THEN bad  \* setAuthTag throws
             ELSE IF hits = {} THEN bad              \* final(): authentication fails
             ELSE [ok |-> TRUE,
                   text |-> Raw(Utf8DecodeRaw(sorc[CHOOSE n \in hits : TRUE].pt))]

\* isEncryptedFile(content)
isEncryptedFile(content) ==
  /\ content.t = "object"
  /\ Truthy(PropOf(content.o, "encrypted"))
  /\ Truthy(PropOf(content.o, "iv"))

\* No value: a response without content, a request without a row to insert.
NoContent == Raw(Undefined)
NoRow == [present |-> FALSE, preview_text |-> << >>, is_encrypted |-> FALSE]

\* content.substring(0, 200).replace(/\n/g, ' ') of a document text (a JSON
\* text of the model has no line in its first 200 characters changed to
\* anything the model distinguishes).
PreviewText(content) ==
  IF content.t # "raw" THEN content
  ELSE Raw([i \in 1..Len(content.u) |-> IF content.u[i] = 10 THEN 32 ELSE content.u[i]])

\* The open route recording the file in recent_documents before it looks at
\* the password.
serverOpenRecordsFirst(fileContent, password, sorc, legacy) ==
  LET refuse(msg, needs) ==
        [status |-> 400, message |-> msg, requiresPassword |-> needs,
         content |-> NoContent,
         row |-> [present |-> TRUE, preview_text |-> PreviewText(fileContent),
                  is_encrypted |-> TRUE]]
      accept(content, isEncrypted) ==
        [status |-> 200, message |-> "", requiresPassword |-> FALSE,
         content |-> content,
         row |-> [present |-> TRUE, preview_text |-> PreviewText(content),
                  is_encrypted |-> isEncrypted]]
  IN IF isEncryptedFile(fileContent)
     THEN IF password = NullPassword \/ password.u = << >>
          THEN refuse("file is encrypted, enter the password", TRUE)
          ELSE LET dec == serverDecryptText(fileContent.o, password, sorc, legacy)
               IN IF dec.ok THEN accept(dec.text, TRUE)
                  ELSE refuse("wrong password or file damaged", FALSE)
     ELSE accept(fileContent, FALSE)

\* POST /api/documents/open for an existing file whose text is fileContent:
\* the response [status, message, requiresPassword, content] and the row put
\* into recent_documents.
serverOpen(fileContent, password, sorc, legacy) ==
  LET refuse(msg, needs) ==
        [status |-> 400, message |-> msg, requiresPassword |-> needs,
         content |-> NoContent, row |-> NoRow]
      accept(content, isEncrypted) ==
        [status |-> 200, message |-> "", requiresPassword |-> FALSE,
         content |-> content,
         row |-> [present |-> TRUE, preview_text |-> PreviewText(content),
                  is_encrypted |-> isEncrypted]]
  IN IF isEncryptedFile(fileContent)
     THEN IF password = NullPassword \/ password.u = << >>
          THEN refuse("file is encrypted, enter the password", TRUE)
          ELSE LET dec == serverDecryptText(fileContent.o, password, sorc, legacy)
               IN IF dec.ok THEN accept(dec.text, TRUE)
                  ELSE refuse("wrong password or file damaged", FALSE)
     ELSE accept(fileContent, FALSE)

\* POST /api/documents/save with a file path: the response [status, message],
\* the text written (undefined when nothing is), the row put into
\* recent_documents and the cipher's table.  Without crypto.createCipher the
\* encrypting save ends in the route's catch block.
serverSave(content, encrypted, password, draw, sorc, legacy) ==
  LET refuse(code, msg) ==
        [status |-> code, message |-> msg, written |-> NoContent, row |-> NoRow,
         sorc |-> sorc]
      enc == serverEncryptText(content, password, draw, sorc)
      finalContent == IF encrypted THEN JsonText("object", enc.data) ELSE content
  IN IF content = NoContent THEN refuse(400, "file path and content required")
     ELSE IF encrypted /\ (password = NullPassword \/ password.u = << >>)
     THEN refuse(400, "encrypted save needs a password")
     ELSE IF encrypted /\ ~legacy THEN refuse(500, "saving the document failed")
     ELSE [status |-> 200, message |-> "", written |-> finalContent,
           row |-> [present |-> TRUE, preview_text |-> PreviewText(content),
                    is_encrypted |-> encrypted],
           sorc |-> IF encrypted THEN enc.sorc ELSE sorc]

\* ------------------------------------------ experiments: the server's table
\* The number of requests the server is sent.
MaxRequests == 3

\* The texts a save request carries.
SavedTexts == {Raw(<< 104 >>), Raw(<< 35, 10, 104 >>)}

\* The passwords a request carries: none, '', 'Secret' and the default one.
RequestPasswords == UserPasswords \cup {NullPassword, Raw(<< >>)}

\* The server before its first request: a.md holds Markdown, b.md an envelope
\* the client saved under 'Secret'; recent_documents is empty.  The row of a
\* path is [present, preview_text, is_encrypted, stamp], stamp being the
\* number of the request that last wrote it (last_opened).
ServerStart(legacy) ==
  LET K == Raw(<< 83, 101, 99, 114, 101, 116 >>)
      now == CHOOSE t \in Timestamps : TRUE
  IN [pc |-> "routes", legacy |-> legacy, clock |-> 0, sorc |-> << >>,
      disk |-> [f \in FileNames |->
                  IF f = "a.md" THEN Raw(<< 104 >>)
                  ELSE formatEncryptedForSave(ForeignEnvelope(K).data, now)],
      recent |-> [f \in FileNames |-> NoRow @@ [stamp |-> 0]],
      resp |-> [route |-> "none", filePath |-> NoFile, status |-> 0,
                message |-> "", content |-> NoContent, encrypted |-> FALSE,
                password |-> NullPassword, sent |-> NoContent]]

\* The server's state in the experiment.
Server(legacy) == IF ux.pc = "routes" THEN ux ELSE ServerStart(legacy)

\* recent_documents after INSERT OR REPLACE of row for filePath by request n.
InsertOrReplace(recent, filePath, row, n) ==
  IF row.present THEN [recent EXCEPT ![filePath] = row @@ [stamp |-> n]]
  ELSE recent

\* A POST /api/documents/open request for filePath with password.
SrvOpen ==
  /\ ux.pc \in {"start", "routes"}
  /\ \E legacy \in (IF ux.pc = "start" THEN BOOLEAN ELSE {ux.legacy}) :
       \E s \in {Server(legacy)} :
         /\ s.clock < MaxRequests
         /\ \E filePath \in FileNames, password \in RequestPasswords :
              \E r \in {serverOpen(s.disk[filePath], password, s.sorc, s.legacy)} :
                ux' = [s EXCEPT
                         !.clock = s.clock + 1,
                         !.recent = InsertOrReplace(s.recent, filePath, r.row, s.clock + 1),
                         !.resp = [route |-> "open", filePath |-> filePath,
                                   status |-> r.status, message |-> r.message,
                                   content |-> r.content,
                                   encrypted |-> isEncryptedFile(s.disk[filePath]),
                                   password |-> password, sent |-> NoContent]]
  /\ UNCHANGED << oracle, rng, cx, fx >>
  /\ UNCHANGED wfVars

\* A POST /api/documents/save request.
SrvSave ==
  /\ ux.pc \in {"start", "routes"}
  /\ \E legacy \in (IF ux.pc = "start" THEN BOOLEAN ELSE {ux.legacy}) :
       \E s \in {Server(legacy)} :
         /\ s.clock < MaxRequests
         /\ \E filePath \in FileNames, content \in SavedTexts \cup {NoContent},
               encrypted \in BOOLEAN, password \in RequestPasswords,
               draw \in 1..MaxRand :
              \E r \in {serverSave(content, encrypted, password, draw, s.sorc, s.legacy)} :
                ux' = [s EXCEPT
                         !.clock = s.clock + 1,
                         !.sorc = r.sorc,
                         !.disk = IF r.written = NoContent THEN s.disk
                                  ELSE [s.disk EXCEPT ![filePath] = r.written],
                         !.recent = InsertOrReplace(s.recent, filePath, r.row, s.clock + 1),
                         !.resp = [route |-> "save", filePath |-> filePath,
                                   status |-> r.status, message |-> r.message,
                                   content |-> NoContent, encrypted |-> encrypted,
                                   password |-> password, sent |-> content]]
  /\ UNCHANGED << oracle, rng, cx, fx >>
  /\ UNCHANGED wfVars

\* ----------------------------------------------------- the font routes
\* The rows insertDefaultData puts into the empty fonts table.
DefaultFonts ==
  { [id |-> 1, name |-> "Inter", family |-> "Inter, sans-serif", size |-> 14,
     is_system_font |-> TRUE, is_active |-> TRUE],
    [id |-> 2, name |-> "JetBrains Mono", family |-> "JetBrains Mono, monospace",
     size |-> 14, is_system_font |-> TRUE, is_active |-> FALSE],
    [id |-> 3, name |-> "Noto Sans SC", family |-> "Noto Sans SC, sans-serif",
     size |-> 14, is_system_font |-> TRUE, is_active |-> FALSE] }

\* The font table before the first request.
FontsStart ==
  [pc |-> "fonts", clock |-> 0, fonts |-> DefaultFonts, nextId |-> 4,
   resp |-> [route |-> "none", status |-> 0]]

Fonts == IF ux.pc = "fonts" THEN ux ELSE FontsStart

\* What a request's body gives for name and family ("" is the empty string,
\* "undefined" a missing property) and for size (0 when missing).
FontNames == {"Inter", "Mine", "", "undefined"}
FontFamilies == {"Mine, serif", "undefined"}
FontSizes == {0, 16}

\* !value, for a string of a request's body.
Missing(value) == value \in {"", "undefined"}

\* The answer of a font route and the table after it.
FontReply(s, route, status, fonts, nextId) ==
  [s EXCEPT !.clock = s.clock + 1, !.fonts = fonts, !.nextId = nextId,
            !.resp = [route |-> route, status |-> status]]

\* POST /api/fonts/upload; hasFile tells whether a file came with it.  The
\* row SELECT ... WHERE name = ? gives is any of the rows of that name.
FontUpload ==
  /\ ux.pc \in {"start", "fonts"}
  /\ \E s \in {Fonts} :
       /\ s.clock < MaxRequests
       /\ \E hasFile \in BOOLEAN, name \in FontNames, family \in FontFamilies,
             size \in FontSizes :
            LET named == {r \in s.fonts : r.name = name}
                row == [id |-> s.nextId, name |-> name, family |-> family,
                        size |-> IF size = 0 THEN 14 ELSE size,
                        is_system_font |-> FALSE, is_active |-> FALSE]
            IN IF ~hasFile \/ Missing(name) \/ Missing(family)
               THEN ux' = FontReply(s, "upload", 400, s.fonts, s.nextId)
               ELSE IF named = {}
               THEN ux' = FontReply(s, "upload", 201, s.fonts \cup {row}, s.nextId + 1)
               ELSE \E existingFont \in named :
                      ux' = FontReply(s, "upload", 201,
                                      (s.fonts \ {existingFont}) \cup {row},
                                      s.nextId + 1)
  /\ UNCHANGED << oracle, rng, cx, fx >>
  /\ UNCHANGED wfVars

\* PUT /api/fonts/:id
FontUpdate ==
  /\ ux.pc \in {"start", "fonts"}
  /\ \E s \in {Fonts} :
       /\ s.clock < MaxRequests
       /\ \E id \in 1..s.nextId, name \in FontNames, family \in FontFamilies,
             size \in FontSizes :
            LET found == {r \in s.fonts : r.id = id}
                coalesce(value, old) == IF value = "undefined" THEN old ELSE value
            IN IF found = {}
               THEN ux' = FontReply(s, "update", 404, s.fonts, s.nextId)
               ELSE \E existingFont \in found :
                      IF existingFont.is_system_font /\ (~Missing(name) \/ ~Missing(family))
                      THEN ux' = FontReply(s, "update", 400, s.fonts, s.nextId)
                      ELSE ux' = FontReply(s, "update", 200,
                                   (s.fonts \ {existingFont}) \cup
                                     {[existingFont EXCEPT
                                         !.name = coalesce(name, @),
                                         !.family = coalesce(family, @),
                                         !.size = IF size = 0 THEN @ ELSE size]},
                                   s.nextId)
  /\ UNCHANGED << oracle, rng, cx, fx >>
  /\ UNCHANGED wfVars

\* POST /api/fonts/:id/activate
FontActivate ==
  /\ ux.pc \in {"start", "fonts"}
  /\ \E s \in {Fonts} :
       /\ s.clock < MaxRequests
       /\ \E id \in 1..s.nextId, size \in FontSizes :
            LET found == {r \in s.fonts : r.id = id}
            IN IF found = {}
               THEN ux' = FontReply(s, "activate", 404, s.fonts, s.nextId)
               ELSE ux' = FontReply(s, "activate", 200,
                            {[r EXCEPT !.is_active = (r.id = id),
                                       !.size = IF r.id = id /\ size # 0 THEN size ELSE @]
                               : r \in s.fonts},
                            s.nextId)
  /\ UNCHANGED << oracle, rng, cx, fx >>
  /\ UNCHANGED wfVars

\* DELETE /api/fonts/:id
FontDelete ==
  /\ ux.pc \in {"start", "fonts"}
  /\ \E s \in {Fonts} :
       /\ s.clock < MaxRequests
       /\ \E id \in 1..s.nextId :
            LET found == {r \in s.fonts : r.id = id}
            IN IF found = {}
               THEN ux' = FontReply(s, "delete", 404, s.fonts, s.nextId)
               ELSE \E font \in found :
                      IF font.is_system_font
                      THEN ux' = FontReply(s, "delete", 400, s.fonts, s.nextId)
                      ELSE LET switched ==
                                 IF font.is_active
                                 THEN {[r EXCEPT !.is_active = (@ \/ r.name = "Inter")]
                                         : r \in s.fonts}
                                 ELSE s.fonts
                           IN ux' = FontReply(s, "delete", 200,
                                        {r \in switched : r.id # id}, s.nextId)
  /\ UNCHANGED << oracle, rng, cx, fx >>
  /\ UNCHANGED wfVars

\* ---------------------------------------------------- the theme routes
\* The rows insertDefaultData puts into the empty themes table (ids are
\* written as the texts a request path carries).
DefaultThemes ==
  { [id |-> "1", name |-> "default", is_built_in |-> TRUE, is_active |-> TRUE],
    [id |-> "2", name |-> "grid", is_built_in |-> TRUE, is_active |-> FALSE],
    [id |-> "3", name |-> "dark", is_built_in |-> TRUE, is_active |-> FALSE],
    [id |-> "4", name |-> "sepia", is_built_in |-> TRUE, is_active |-> FALSE] }

\* The requests the server works on at once.
Clients == {1, 2}

\* The :id of a request's path: the id of a row, a name, no row's id.
ThemeParams == {"1", "3", "dark", "9"}

NoTheme == [id |-> "", name |-> "", is_built_in |-> FALSE, is_active |-> FALSE]
Idle == [kind |-> "idle", pc |-> "idle", param |-> "", theme |-> NoTheme, status |-> 0]

\* The one database connection (its themes table, the theme_name setting,
\* whether a transaction is open and what ROLLBACK would restore) and the
\* requests in progress, before the first request.
ThemesStart ==
  [pc |-> "themes", started |-> 0, themes |-> DefaultThemes, setting |-> "default",
   inTxn |-> FALSE, snap |-> [themes |-> {}, setting |-> ""],
   reqs |-> [c \in Clients |-> Idle]]

Themes == IF ux.pc = "themes" THEN ux ELSE ThemesStart

\* The request of client c has been answered with status.
Answered(s, c, status) ==
  [s EXCEPT !.reqs[c] = [Idle EXCEPT !.status = status]]

\* A theme request arrives: activate or delete, with :id param.
ThemeRequest ==
  /\ ux.pc \in {"start", "themes"}
  /\ \E s \in {Themes} :
       /\ s.started < MaxRequests
       /\ \E c \in Clients, kind \in {"activate", "delete"}, param \in ThemeParams :
            /\ s.reqs[c].kind = "idle"
            /\ ux' = [s EXCEPT !.started = s.started + 1,
                               !.reqs[c] = [Idle EXCEPT !.kind = kind, !.pc = "select",
                                                        !.param = param]]
  /\ UNCHANGED << oracle, rng, cx, fx >>
  /\ UNCHANGED wfVars

\* One awaited statement of POST /api/themes/:id/activate without the
\* statement that clears is_active in every row.
ThemeActivateStepKeepsActive ==
  /\ ux.pc = "themes"
  /\ \E c \in Clients, fails \in BOOLEAN :
       LET s == ux
           q == s.reqs[c]
           at(pc) == [s EXCEPT !.reqs[c].pc = pc]
           found == {r \in s.themes : r.id = q.param \/ r.name = q.param}
       IN /\ q.kind = "activate"
          /\ IF q.pc = "select"
             THEN /\ ~fails
                  /\ IF found = {} THEN ux' = Answered(s, c, 404)
                     ELSE \E theme \in found :
                            ux' = [s EXCEPT !.reqs[c].pc = "begin", !.reqs[c].theme = theme]
             ELSE IF q.pc = "begin"
             THEN /\ ~fails
                  /\ IF s.inTxn THEN ux' = Answered(s, c, 500)
                     ELSE ux' = [at("clear") EXCEPT
                                   !.inTxn = TRUE,
                                   !.snap = [themes |-> s.themes, setting |-> s.setting]]
             ELSE IF q.pc = "rollback"
             THEN /\ ~fails
                  /\ ux' = [Answered(s, c, 500) EXCEPT
                              !.themes = s.snap.themes, !.setting = s.snap.setting,
                              !.inTxn = FALSE, !.snap = ThemesStart.snap]
             ELSE IF fails THEN ux' = at("rollback")
             ELSE IF q.pc = "clear"
             THEN ux' = at("set")
             ELSE IF q.pc = "set"
             THEN ux' = [at("setting") EXCEPT
                           !.themes = {[r EXCEPT !.is_active = (@ \/ r.id = q.theme.id)]
                                         : r \in s.themes}]
             ELSE IF q.pc = "setting"
             THEN ux' = [at("commit") EXCEPT !.setting = q.theme.name]
             ELSE ux' = [Answered(s, c, 200) EXCEPT
                           !.inTxn = FALSE, !.snap = ThemesStart.snap]
  /\ UNCHANGED << oracle, rng, cx, fx >>
  /\ UNCHANGED wfVars

\* One awaited statement of POST /api/themes/:id/activate for client c:
\* SELECT, BEGIN TRANSACTION (an error when the connection has a transaction
\* open), the two UPDATEs, INSERT OR REPLACE of the setting, COMMIT; a
\* statement inside the transaction may fail, and ROLLBACK follows.
ThemeActivateStep ==
  /\ ux.pc = "themes"
  /\ \E c \in Clients, fails \in BOOLEAN :
       LET s == ux
           q == s.reqs[c]
           at(pc) == [s EXCEPT !.reqs[c].pc = pc]
           found == {r \in s.themes : r.id = q.param \/ r.name = q.param}
       IN /\ q.kind = "activate"
          /\ IF q.pc = "select"
             THEN /\ ~fails
                  /\ IF found = {} THEN ux' = Answered(s, c, 404)
                     ELSE \E theme \in found :
                            ux' = [s EXCEPT !.reqs[c].pc = "begin", !.reqs[c].theme = theme]
             ELSE IF q.pc = "begin"
             THEN /\ ~fails
                  /\ IF s.inTxn THEN ux' = Answered(s, c, 500)
                     ELSE ux' = [at("clear") EXCEPT
                                   !.inTxn = TRUE,
                                   !.snap = [themes |-> s.themes, setting |-> s.setting]]
             ELSE IF q.pc = "rollback"
             THEN /\ ~fails
                  /\ ux' = [Answered(s, c, 500) EXCEPT
                              !.themes = s.snap.themes, !.setting = s.snap.setting,
                              !.inTxn = FALSE, !.snap = ThemesStart.snap]
             ELSE IF fails THEN ux' = at("rollback")
             ELSE IF q.pc = "clear"
             THEN ux' = [at("set") EXCEPT
                           !.themes = {[r EXCEPT !.is_active = FALSE] : r \in s.themes}]
             ELSE IF q.pc = "set"
             THEN ux' = [at("setting") EXCEPT
                           !.themes = {[r EXCEPT !.is_active = (@ \/ r.id = q.theme.id)]
                                         : r \in s.themes}]
             ELSE IF q.pc = "setting"
             THEN ux' = [at("commit") EXCEPT !.setting = q.theme.name]
             ELSE ux' = [Answered(s, c, 200) EXCEPT
                           !.inTxn = FALSE, !.snap = ThemesStart.snap]
  /\ UNCHANGED << oracle, rng, cx, fx >>
  /\ UNCHANGED wfVars

\* One awaited statement of DELETE /api/themes/:id for client c: SELECT,
\* the UPDATE that activates 'default' when the row read was active, DELETE.
ThemeDeleteStep ==
  /\ ux.pc = "themes"
  /\ \E c \in Clients :
       LET s == ux
           q == s.reqs[c]
           found == {r \in s.themes : r.id = q.param}
       IN /\ q.kind = "delete"
          /\ IF q.pc = "select"
             THEN IF found = {} THEN ux' = Answered(s, c, 404)
                  ELSE \E theme \in found :
                         IF theme.is_built_in THEN ux' = Answered(s, c, 400)
                         ELSE ux' = [s EXCEPT
                                       !.reqs[c].theme = theme,
                                       !.reqs[c].pc = IF theme.is_active THEN "switch"
                                                      ELSE "remove"]
             ELSE IF q.pc = "switch"
             THEN ux' = [s EXCEPT
                           !.reqs[c].pc = "remove",
                           !.themes = {[r EXCEPT !.is_active = (@ \/ r.name = "default")]
                                         : r \in s.themes}]
             ELSE ux' = [Answered(s, c, 200) EXCEPT
                           !.themes = {r \in s.themes : r.id # q.param}]
  /\ UNCHANGED << oracle, rng, cx, fx >>
  /\ UNCHANGED wfVars

\* -------------------------------------------------- the settings routes
\* Three of the ten rows insertDefaultData puts into app_settings: key and
\* value.
DefaultSettings ==
  [theme_name |-> "default", font_size |-> "14", auto_save |-> "true"]

\* The names module.exports of database/init.js has.
InitExports == {"getDatabase", "initDatabase", "closeDatabase", "DB_PATH"}

\* The keys of the requests: the ones with a default, and one without.
SettingKeys == DOMAIN DefaultSettings \cup {"note"}

\* The value of a key that has no row.
NoSetting == "absent"

\* app_settings after insertDefaultData (INSERT OR IGNORE of every default).
insertDefaultData(table) ==
  [k \in SettingKeys |->
     IF table[k] = NoSetting /\ k \in DOMAIN DefaultSettings
     THEN DefaultSettings[k] ELSE table[k]]

\* app_settings before the first request, and no answer yet.
SettingsStart ==
  [pc |-> "settings", clock |-> 0,
   table |-> insertDefaultData([k \in SettingKeys |-> NoSetting]),
   resp |-> [route |-> "none", status |-> 0, keys |-> {}]]

Settings == IF ux.pc = "settings" THEN ux ELSE SettingsStart

\* PUT /api/settings/:key with a value of type string ("undefined": none).
SettingPut ==
  /\ ux.pc \in {"start", "settings"}
  /\ \E s \in {Settings} :
       /\ s.clock < MaxRequests
       /\ \E key \in SettingKeys, value \in {"dark", "16", "undefined"} :
            ux' = [s EXCEPT
                     !.clock = s.clock + 1,
                     !.table = IF value = "undefined" THEN s.table
                               ELSE [s.table EXCEPT ![key] = value],
                     !.resp = [route |-> "put", keys |-> {key},
                               status |-> IF value = "undefined" THEN 400 ELSE 200]]
  /\ UNCHANGED << oracle, rng, cx, fx >>
  /\ UNCHANGED wfVars

\* DELETE /api/settings/:key
SettingDelete ==
  /\ ux.pc \in {"start", "settings"}
  /\ \E s \in {Settings} :
       /\ s.clock < MaxRequests
       /\ \E key \in SettingKeys :
            ux' = [s EXCEPT !.clock = s.clock + 1,
                            !.table = [s.table EXCEPT ![key] = NoSetting],
                            !.resp = [route |-> "delete", keys |-> {key}, status |-> 200]]
  /\ UNCHANGED << oracle, rng, cx, fx >>
  /\ UNCHANGED wfVars

\* POST /api/settings/reset; keys is the array of the body, or every key when
\* the body has none.  Calling a name the required module does not export
\* throws, and the route's catch block answers 500.
SettingsReset ==
  /\ ux.pc \in {"start", "settings"}
  /\ \E s \in {Settings} :
       /\ s.clock < MaxRequests
       /\ \E hasKeys \in BOOLEAN, keys \in SUBSET SettingKeys :
            /\ ~hasKeys => keys = SettingKeys
            /\ LET deleted == [k \in SettingKeys |->
                                 IF k \in keys THEN NoSetting ELSE s.table[k]]
               IN ux' = [s EXCEPT
                           !.clock = s.clock + 1,
                           !.table = IF "insertDefaultData" \in InitExports
                                     THEN insertDefaultData(deleted) ELSE deleted,
                           !.resp = [route |-> "reset", keys |-> keys,
                                     status |-> IF "insertDefaultData" \in InitExports
                                                THEN 200 ELSE 500]]
  /\ UNCHANGED << oracle, rng, cx, fx >>
  /\ UNCHANGED wfVars

\* ------------------------------------------ experiments: failed decryption
\* The ways an envelope is damaged before the attempt.
ClientDamages == {"none", "ciphertext", "iv", "base64", "algorithm"}
ServerDamages == {"none", "ciphertext", "tag", "hex", "iv"}

\* str with its first character replaced by c (by alt when it is c already).
ChangeFirst(str, c, alt) ==
  IF Len(str) = 0 THEN str
  ELSE [str EXCEPT ![1] = IF str[1] = c THEN alt ELSE c]

\* The object data with the damage kind done to it ('!' is no base64
\* character, 'z' no hexadecimal digit).
Damage(data, kind) ==
  IF kind = "ciphertext" THEN [data EXCEPT !.encrypted = ChangeFirst(@, 65, 66)]
  ELSE IF kind = "iv" THEN [data EXCEPT !.iv = ChangeFirst(@, 65, 66)]
  ELSE IF kind = "base64" THEN [data EXCEPT !.encrypted = ChangeFirst(@, 33, 33)]
  ELSE IF kind = "algorithm" THEN [data EXCEPT !.algorithm = ALG_OTHER]
  ELSE IF kind = "tag" THEN [data EXCEPT !.authTag = ChangeFirst(@, 48, 49)]
  ELSE IF kind = "hex" THEN [data EXCEPT !.encrypted = ChangeFirst(@, 122, 122)]
  ELSE data

NoSealed == [encrypted |-> << >>, iv |-> << >>, authTag |-> << >>]

UxStart ==
  [pc |-> "start", kind |-> "none", tried |-> Raw(<< >>), ok |-> FALSE,
   message |-> "", status |-> 0, content |-> NoContent,
   sealed |-> NoSealed, sealedWith |-> Raw(<< >>), sorc |-> << >>]

\* The password dialog, opened on the envelope the experiment made and then
\* damaged, is submitted with password B.
UxDialogAttempt ==
  /\ cx.pc = "encrypted"
  /\ ux.pc = "start"
  /\ \E kind \in ClientDamages, B \in Passwords :
       LET dlg == [isOpen |-> TRUE, mode |-> "decrypt",
                   encryptedData |-> [isNull |-> FALSE, data |-> Damage(cx.data, kind)],
                   pendingAction |-> [type |-> "open", file |-> "a.md"]]
       IN \E r \in {handlePasswordSubmit(B, InitialDocument, NullPassword, dlg, oracle)} :
            ux' = [UxStart EXCEPT !.pc = "dialog", !.kind = kind, !.tried = B,
                                  !.ok = r.ok, !.message = r.err,
                                  !.content = IF r.ok THEN r.doc.content ELSE NoContent]
  /\ UNCHANGED << oracle, rng, cx, fx >>
  /\ UNCHANGED wfVars

\* The server encrypts a text (the body of an encrypted save).
UxServerSeal ==
  /\ cx.pc = "start"
  /\ ux.pc = "start"
  /\ \E P \in Plaintexts, K \in Passwords, draw \in 1..MaxRand :
       \E r \in {serverEncryptText(P, K, draw, ux.sorc)} :
         ux' = [UxStart EXCEPT !.pc = "sealed", !.sealed = r.data,
                               !.sealedWith = K, !.sorc = r.sorc]
  /\ UNCHANGED << oracle, rng, cx, fx >>
  /\ UNCHANGED wfVars

\* The open route is asked, with password B, for a file holding the object
\* the server made, damaged.
UxServerAttempt ==
  /\ ux.pc = "sealed"
  /\ \E kind \in ServerDamages, B \in Passwords, legacy \in BOOLEAN :
       \E r \in {serverOpen(JsonText("object", Damage(ux.sealed, kind)), B,
                            ux.sorc, legacy)} :
         ux' = [ux EXCEPT !.pc = "server", !.kind = kind, !.tried = B,
                          !.ok = (r.status = 200), !.message = r.message,
                          !.status = r.status, !.content = r.content]
  /\ UNCHANGED << oracle, rng, cx, fx >>
  /\ UNCHANGED wfVars

\* The open route is asked, with password B, for a file the client saved
\* encrypted.
UxServerAttemptClient ==
  /\ cx.pc = "encrypted"
  /\ ux.pc = "start"
  /\ \E now \in Timestamps, B \in Passwords, legacy \in BOOLEAN :
       \E r \in {serverOpen(formatEncryptedForSave(cx.data, now), B, ux.sorc, legacy)} :
         ux' = [UxStart EXCEPT !.pc = "server", !.kind = "client", !.tried = B,
                               !.ok = (r.status = 200), !.message = r.message,
                               !.status = r.status, !.content = r.content]
  /\ UNCHANGED << oracle, rng, cx, fx >>
  /\ UNCHANGED wfVars

\* ------------------------------------------ experiments: key derivation
\* The lengths of the salts handed to deriveKey: none, one byte, and the 16
\* bytes encryptText draws.
SaltLengths == {0, 1, 16}

\* deriveKey is reached with password K and a salt of n bytes: an envelope
\* of the format made with that salt (by encryptText when n is 16, by another
\* writer of the format otherwise) is decrypted by decryptText with K.
UxDeriveKey ==
  /\ cx.pc = "start"
  /\ ux.pc = "start"
  /\ \E P \in Plaintexts, K \in Passwords \cup {Raw(<< >>)}, n \in SaltLengths,
        s \in 1..MaxRand, v \in 1..MaxRand :
       \E enc \in {encryptText(P, K, RandomBytes(n, s), RandomBytes(12, v), oracle)} :
         \E dec \in {decryptText(enc.data, K, enc.orc)} :
           ux' = [pc |-> "derived", tried |-> K, saltLength |-> n,
                  plaintext |-> P, encrypted |-> TRUE, ok |-> dec.ok, text |-> dec.text]
  /\ UNCHANGED << oracle, rng, cx, fx >>
  /\ UNCHANGED wfVars

\* ---------------------------------------- experiments: version, algorithm
\* '2.0', a version the code does not know.
VERSION_2_0 == << 50, 46, 48 >>

\* The envelope the experiment made is given the version ver (absent when
\* ver is undefined); it is serialized, and the file an encrypted save wrote
\* for it, with the version ver put in, is parsed and decrypted with the
\* envelope's password.
UxVersion ==
  /\ cx.pc = "encrypted"
  /\ ux.pc = "start"
  /\ \E ver \in {VERSION_1_0, VERSION_2_0, Undefined}, now \in Timestamps :
       LET given == [cx.data EXCEPT !.version = ver]
           text == formatEncryptedForSave(given, now)
           file == JsonText("object", [text.o EXCEPT !.version = ver])
       IN \E parsed \in {parseEncryptedFromSave(file)} :
            LET dec == decryptText(parsed.data, cx.password, oracle)
            IN ux' = [pc |-> "version", version |-> ver,
                      serialized |-> text.o.version,
                      parsedNull |-> parsed.isNull,
                      ok |-> ~parsed.isNull /\ dec.ok]
  /\ UNCHANGED << oracle, rng, cx, fx >>
  /\ UNCHANGED wfVars

\* decryptText is called with password B on the envelope the experiment made,
\* its algorithm replaced by alg (removed when alg is undefined) and, when
\* malformed, its ciphertext made no base64 text.
UxAlgorithm ==
  /\ cx.pc = "encrypted"
  /\ ux.pc = "start"
  /\ \E alg \in {ALG_OTHER, Undefined}, B \in Passwords, malformed \in BOOLEAN :
       LET given == [Damage(cx.data, IF malformed THEN "base64" ELSE "none")
                       EXCEPT !.algorithm = alg]
       IN \E dec \in {decryptText(given, B, oracle)} :
            ux' = [pc |-> "algorithm", algorithm |-> alg, tried |-> B,
                   malformed |-> malformed, ok |-> dec.ok, cause |-> dec.err]
  /\ UNCHANGED << oracle, rng, cx, fx >>
  /\ UNCHANGED wfVars

\* ------------------------------------------ experiments: the document store
\* The store's currentDocument in the experiment, and the content it had at
\* the last open, new document or save.
StoreDoc == IF ux.pc = "store" THEN ux.doc ELSE InitialDocument
StoreBase == IF ux.pc = "store" THEN ux.base ELSE InitialDocument.content

\* The store calls of handleOpenDocument for a file f holding the text c.
UxStoreOpen ==
  /\ ux.pc \in {"start", "store"}
  /\ \E c \in Plaintexts, f \in FileNames :
       ux' = [pc |-> "store", base |-> c,
              doc |-> setDocumentInfo(setDocumentContent(StoreDoc, c),
                        [filePath |-> f, fileName |-> f, fileHandle |-> f,
                         isModified |-> FALSE, isEncrypted |-> FALSE,
                         lastSaved |-> "file"])]
  /\ UNCHANGED << oracle, rng, cx, fx >>
  /\ UNCHANGED wfVars

\* The store calls of handleNewDocument.
UxStoreNew ==
  /\ ux.pc \in {"start", "store"}
  /\ ux' = [pc |-> "store", base |-> Raw(<< >>),
            doc |-> setDocumentInfo(setDocumentContent(StoreDoc, Raw(<< >>)),
                      [filePath |-> NoFile, fileName |-> "untitled.md",
                       fileHandle |-> NoFile, isModified |-> FALSE,
                       isEncrypted |-> FALSE, lastSaved |-> "null"])]
  /\ UNCHANGED << oracle, rng, cx, fx >>
  /\ UNCHANGED wfVars

\* setDocumentContent(c), as handleContentChange calls it.
UxStoreEdit ==
  /\ ux.pc \in {"start", "store"}
  /\ \E c \in Plaintexts :
       ux' = [pc |-> "store", base |-> StoreBase,
              doc |-> setDocumentContent(StoreDoc, c)]
  /\ UNCHANGED << oracle, rng, cx, fx >>
  /\ UNCHANGED wfVars

\* markDocumentSaved(), after the store's content has been written.
UxStoreSaved ==
  /\ ux.pc \in {"start", "store"}
  /\ ux' = [pc |-> "store", base |-> StoreDoc.content,
            doc |-> markDocumentSaved(StoreDoc)]
  /\ UNCHANGED << oracle, rng, cx, fx >>
  /\ UNCHANGED wfVars

\* ------------------------------------------------------ password utilities
\* The regular expressions of validatePasswordStrength, tested on code units.
HasUpper(u) == \E i \in 1..Len(u) : u[i] >= 65 /\ u[i] <= 90          \* /[A-Z]/
HasLower(u) == \E i \in 1..Len(u) : u[i] >= 97 /\ u[i] <= 122         \* /[a-z]/
HasDigit(u) == \E i \in 1..Len(u) : u[i] >= 48 /\ u[i] <= 57          \* /\d/
HasSymbol(u) ==                                                       \* /[^A-Za-z0-9]/
  \E i \in 1..Len(u) :
    ~(\/ u[i] >= 65 /\ u[i] <= 90
      \/ u[i] >= 97 /\ u[i] <= 122
      \/ u[i] >= 48 /\ u[i] <= 57)

\* validatePasswordStrength without the bonus for 12 characters.
validatePasswordStrengthNoBonus(password) ==
  IF password = NullPassword \/ password.u = << >>
  THEN [score |-> 0, suggestions |-> << "enter a password" >>, isValid |-> FALSE]
  ELSE LET u == password.u
           check(r, passed, suggestion) ==
             IF passed THEN [r EXCEPT !.score = @ + 1]
             ELSE [r EXCEPT !.suggestions = Append(@, suggestion)]
           r0 == [score |-> 0, suggestions |-> << >>]
           r1 == check(r0, Len(u) >= 8, "at least 8 characters")
           r2 == check(r1, HasUpper(u), "add an uppercase letter")
           r3 == check(r2, HasLower(u), "add a lowercase letter")
           r4 == check(r3, HasDigit(u), "add a digit")
           r5 == check(r4, HasSymbol(u), "add a special character")
       IN [score |-> r5.score, suggestions |-> r5.suggestions,
           isValid |-> r5.score >= 3]

\* validatePasswordStrength(password): [score, suggestions, isValid].
validatePasswordStrength(password) ==
  IF password = NullPassword \/ password.u = << >>
  THEN [score |-> 0, suggestions |-> << "enter a password" >>, isValid |-> FALSE]
  ELSE LET u == password.u
           check(r, passed, suggestion) ==
             IF passed THEN [r EXCEPT !.score = @ + 1]
             ELSE [r EXCEPT !.suggestions = Append(@, suggestion)]
           r0 == [score |-> 0, suggestions |-> << >>]
           r1 == check(r0, Len(u) >= 8, "at least 8 characters")
           r2 == check(r1, HasUpper(u), "add an uppercase letter")
           r3 == check(r2, HasLower(u), "add a lowercase letter")
           r4 == check(r3, HasDigit(u), "add a digit")
           r5 == check(r4, HasSymbol(u), "add a special character")
           r6 == IF Len(u) >= 12 THEN [r5 EXCEPT !.score = @ + 1] ELSE r5
       IN [score |-> r6.score, suggestions |-> r6.suggestions,
           isValid |-> r6.score >= 3]

\* The passwords the strength experiments use: for each set of character
\* kinds ('A', 'a', '1', '!', U+00C9) and each length, the text of that length
\* that takes its characters from the kinds in turn; and null.
KindChars == << 65, 97, 49, 33, 201 >>
StrengthLengths == {0, 1, 5, 7, 8, 11, 12, 13}

RECURSIVE Ascending(_)
Ascending(K) ==
  IF K = {} THEN << >>
  ELSE LET m == CHOOSE x \in K : \A y \in K : x <= y
       IN << m >> \o Ascending(K \ {m})

KindsText(K, n) ==
  LET ks == Ascending(K)
  IN Raw([i \in 1..n |-> KindChars[ks[((i - 1) % Len(ks)) + 1]]])

StrengthPasswords ==
  {KindsText(K, n) : K \in (SUBSET (1..5)) \ {{}}, n \in StrengthLengths}
    \cup {NullPassword}

\* validatePasswordStrength is called (PasswordInput does so on every change
\* of the input).
UxStrength ==
  /\ ux.pc = "start"
  /\ \E password \in StrengthPasswords :
       ux' = [pc |-> "strength", password |-> password,
              result |-> validatePasswordStrength(password)]
  /\ UNCHANGED << oracle, rng, cx, fx >>
  /\ UNCHANGED wfVars

\* EncryptionManager.getDialogConfig: what the dialog of a mode asks of
\* PasswordInput.
getDialogConfig(mode) ==
  IF mode = "encrypt"
  THEN [confirmMode |-> TRUE, showStrengthMeter |-> TRUE, showGenerateButton |-> TRUE]
  ELSE [confirmMode |-> FALSE, showStrengthMeter |-> FALSE, showGenerateButton |-> FALSE]

\* PasswordInput's effect on value: the passwordStrength state ("null" when
\* the meter is off or the input empty).
StrengthState(value, showStrengthMeter) ==
  IF showStrengthMeter /\ value.u # << >>
  THEN [isNull |-> FALSE, strength |-> validatePasswordStrength(value)]
  ELSE [isNull |-> TRUE, strength |-> validatePasswordStrength(Raw(<< >>))]

\* PasswordInput.handleSubmit: onSubmit(value) is called.
handleSubmit(value, confirmPassword, config, passwordStrength) ==
  /\ value.u # << >>
  /\ ~(config.confirmMode /\ value # confirmPassword)
  /\ ~(config.showStrengthMeter /\ ~passwordStrength.isNull
         /\ ~passwordStrength.strength.isValid)

\* The form of the dialog of some mode is submitted with value typed in the
\* password field and confirmPassword in the confirmation field.
UxSubmit ==
  /\ ux.pc = "start"
  /\ \E mode \in {"encrypt", "decrypt", "verify", "other"},
        value \in StrengthPasswords \ {NullPassword} :
       \E confirmPassword \in {value, Raw(<< >>)} :
         LET config == getDialogConfig(mode)
             passwordStrength == StrengthState(value, config.showStrengthMeter)
         IN ux' = [pc |-> "submit", mode |-> mode, value |-> value,
                   confirmPassword |-> confirmPassword,
                   submitted |-> handleSubmit(value, confirmPassword, config,
                                              passwordStrength)]
  /\ UNCHANGED << oracle, rng, cx, fx >>
  /\ UNCHANGED wfVars

\* The symbols of generateRandomPassword: '!@#$%^&*()_+-=[]{}|;:,.<>?'
SYMBOLS ==
  << 33, 64, 35, 36, 37, 94, 38, 42, 40, 41, 95, 43, 45, 61, 91, 93,
  123, 125, 124, 59, 58, 44, 46, 60, 62, 63 >>

\* The characters from..to in order, without those in skip.
CharRange(from, to, skip) ==
  SelectSeq([i \in 1..(to - from + 1) |-> from + i - 1], LAMBDA c : c \notin skip)

\* The charset generateRandomPassword builds for its options: the literal
\* strings of the code are the letters and digits in order, the look-alike
\* ones (I, O; i, l, o; 0, 1) left out under excludeSimilar.
Charset(options) ==
  LET skip == IF options.excludeSimilar THEN {73, 79, 105, 108, 111, 48, 49} ELSE {}
  IN (IF options.includeUppercase THEN CharRange(65, 90, skip) ELSE << >>)
       \o (IF options.includeLowercase THEN CharRange(97, 122, skip) ELSE << >>)
       \o (IF options.includeNumbers THEN CharRange(48, 57, skip) ELSE << >>)
       \o (IF options.includeSymbols THEN SYMBOLS ELSE << >>)

\* The most bytes crypto.getRandomValues fills in one call; it throws
\* QuotaExceededError beyond.
RANDOM_QUOTA == 65536

\* generateRandomPassword that never leaves the look-alike characters out.
generateRandomPasswordKeepsSimilar(length, options, array) ==
  LET charset == Charset([options EXCEPT !.excludeSimilar = FALSE])
  IN IF charset = << >> THEN [threw |-> TRUE, password |-> << >>]
     ELSE IF length > RANDOM_QUOTA THEN [threw |-> TRUE, password |-> << >>]
     ELSE [threw |-> FALSE,
           password |-> [i \in 1..length |-> charset[(array[i] % Len(charset)) + 1]]]

\* generateRandomPassword(length, options); array holds the bytes
\* getRandomValues returns (unused when the call throws): [threw, password].
generateRandomPassword(length, options, array) ==
  LET charset == Charset(options)
  IN IF charset = << >> THEN [threw |-> TRUE, password |-> << >>]
     ELSE IF length > RANDOM_QUOTA THEN [threw |-> TRUE, password |-> << >>]
     ELSE [threw |-> FALSE,
           password |-> [i \in 1..length |-> charset[(array[i] % Len(charset)) + 1]]]

\* The lengths asked for, and the values of the random bytes.
GeneratedLengths == {0, 1, 2, 3, RANDOM_QUOTA + 1}
ByteValues == {0, 8, 255}

GenerateOptions ==
  [includeUppercase : BOOLEAN, includeLowercase : BOOLEAN, includeNumbers : BOOLEAN,
   includeSymbols : BOOLEAN, excludeSimilar : BOOLEAN]

\* generateRandomPassword is called.
UxGenerate ==
  /\ ux.pc = "start"
  /\ \E length \in GeneratedLengths, options \in GenerateOptions :
       \E array \in [1..(IF length > RANDOM_QUOTA THEN 0 ELSE length) -> ByteValues] :
         ux' = [pc |-> "generated", length |-> length, options |-> options,
                result |-> generateRandomPassword(length, options, array)]
  /\ UNCHANGED << oracle, rng, cx, fx >>
  /\ UNCHANGED wfVars

\* --------------------------------------- the password dialog, step by step
\* EncryptionManager's own state while the dialog is used: isProcessing, the
\* calls of handlePasswordSubmit that wait for their decryptText (each with
\* its password and the dialog props of its render), and how often onSuccess
\* was called.
Manager ==
  IF ux.pc = "manager" THEN ux
  ELSE [pc |-> "manager", isProcessing |-> FALSE, pending |-> << >>, successes |-> 0]

\* handlePasswordSubmit up to its await: Enter in the password field (or the
\* submit button) calls it with a non-empty password; it sets isProcessing
\* and starts decryptText.  Nothing in it or in PasswordInput.handleSubmit
\* reads isProcessing.
SubmitStart ==
  /\ dialog.isOpen
  /\ \E password \in UserPasswords :
       ux' = [Manager EXCEPT !.isProcessing = TRUE,
                             !.pending = Append(@, [password |-> password,
                                                    dialog |-> dialog])]
  /\ last' = NoLast
  /\ UNCHANGED << oracle, rng, cx, fx, doc, dialog, currentPassword, showSaveDialog,
                  files, timer, written, fmeta >>

\* handlePasswordSubmit after its await: one of the waiting calls gets the
\* result of its decryptText; on success it calls onSuccess and onClose, on
\* failure it shows the error; then it clears isProcessing.
SubmitFinish ==
  /\ ux.pc = "manager"
  /\ \E i \in 1..Len(ux.pending) :
       LET call == ux.pending[i]
           r == handlePasswordSubmit(call.password, doc, currentPassword,
                                     call.dialog, oracle)
       IN /\ doc' = r.doc
          /\ currentPassword' = r.currentPassword
          /\ dialog' = IF r.ok THEN r.dialog ELSE dialog
          /\ ux' = [ux EXCEPT !.isProcessing = FALSE,
                              !.pending = SubSeq(@, 1, i - 1) \o SubSeq(@, i + 1, Len(@)),
                              !.successes = IF r.ok THEN @ + 1 ELSE @]
          /\ last' = [NoLast EXCEPT !.op = "submit", !.fallbackOk = r.ok,
                                    !.file = call.dialog.pendingAction.file,
                                    !.password = call.password, !.err = r.err]
  /\ UNCHANGED << oracle, rng, cx, fx, showSaveDialog, files, timer, written, fmeta >>

\* ----------------------------------------------------------- specifications
CryptoInit ==
  /\ oracle = << >>
  /\ rng = [salts |-> {}, ivs |-> {}]

EditorIdle ==
  /\ doc = InitialDocument
  /\ dialog = DialogClosed
  /\ showSaveDialog = FALSE
  /\ currentPassword = NullPassword
  /\ timer = [set |-> FALSE, snap |-> InitialDocument]
  /\ last = NoLast

CodecInit ==
  /\ CryptoInit
  /\ cx = CxStart
  /\ fx = FxStart
  /\ ux = UxStart
  /\ EditorIdle
  /\ files = [f \in FileNames |-> FileWrite(Raw(<< 104 >>))]
  /\ written = << >>
  /\ fmeta = [f \in FileNames |-> NullPassword]
  /\ steps = 0

CodecNext ==
  \/ CxEncrypt /\ UNCHANGED << fx, ux >> /\ UNCHANGED wfVars
  \/ CxDecrypt /\ UNCHANGED << fx, ux >> /\ UNCHANGED wfVars
  \/ CxTamperDecrypt /\ UNCHANGED << fx, ux >> /\ UNCHANGED wfVars

SpecCodec == CodecInit /\ [][CodecNext]_vars

FormatNext ==
  \/ CxEncrypt /\ fx.pc = "start" /\ UNCHANGED << fx, ux >> /\ UNCHANGED wfVars
  \/ FxClassify /\ UNCHANGED ux /\ UNCHANGED wfVars
  \/ FxRoundTrip /\ UNCHANGED ux /\ UNCHANGED wfVars

SpecFormat == CodecInit /\ [][FormatNext]_vars

Init ==
  /\ rng = [salts |-> {}, ivs |-> {}]
  /\ cx = CxStart
  /\ fx = FxStart
  /\ ux = UxStart
  /\ EditorIdle
  /\ steps = 0
  /\ \E d \in InitialDisks :
       /\ oracle = d.orc
       /\ files = [f \in FileNames |->
                     IF f = "a.md" THEN FileWrite(Raw(<< 104 >>)) ELSE d.bytes]
       /\ written = d.env
       /\ fmeta = [f \in FileNames |-> IF f = "a.md" THEN NullPassword ELSE d.pw]

\* One more editor operation, while the behaviour may go on.
Step == steps < MaxSteps /\ steps' = steps + 1

Next ==
  \/ Step /\ OpenDocument /\ UNCHANGED << cx, fx, ux >>
  \/ Step /\ PasswordSubmit /\ UNCHANGED << cx, fx, ux >>
  \/ Step /\ EncryptionClose /\ UNCHANGED << cx, fx, ux >>
  \/ Step /\ ContentChange /\ UNCHANGED << cx, fx, ux >>
  \/ Step /\ NewDocument /\ UNCHANGED << cx, fx, ux >>
  \/ Step /\ RequestSave /\ UNCHANGED << cx, fx, ux >>
  \/ Step /\ SaveDialogSave /\ UNCHANGED << cx, fx, ux >>
  \/ Step /\ SaveDialogClose /\ UNCHANGED << cx, fx, ux >>
  \/ Step /\ AutoSave /\ UNCHANGED << cx, fx, ux >>

Spec == Init /\ [][Next]_vars

\* handleSaveDocument called directly on the documents that edits make.
CallNext ==
  \/ Step /\ ContentChange /\ UNCHANGED << cx, fx, ux >>
  \/ Step /\ DirectSave /\ UNCHANGED << cx, fx, ux >>

SpecCall == Init /\ [][CallNext]_vars

\* Decryption attempts through the password dialog and the open route.
AttemptNext ==
  \/ ux.pc = "start" /\ CxEncrypt /\ UNCHANGED << fx, ux >> /\ UNCHANGED wfVars
  \/ UxDialogAttempt
  \/ UxServerSeal
  \/ UxServerAttempt
  \/ UxServerAttemptClient
  \/ UxDeriveKey
  \/ UxVersion
  \/ UxAlgorithm

SpecAttempt == CodecInit /\ [][AttemptNext]_vars

\* Calls of the password utilities.
PasswordNext ==
  \/ UxStrength
  \/ UxSubmit
  \/ UxGenerate

SpecPassword == CodecInit /\ [][PasswordNext]_vars

\* Calls of the document store.
StoreNext ==
  \/ UxStoreOpen
  \/ UxStoreNew
  \/ UxStoreEdit
  \/ UxStoreSaved

SpecStore == CodecInit /\ [][StoreNext]_vars

\* Requests to the server's document routes.
ServerNext ==
  \/ SrvOpen
  \/ SrvSave

SpecServer == CodecInit /\ [][ServerNext]_vars

\* Requests to the font routes.
FontsNext ==
  \/ FontUpload
  \/ FontUpdate
  \/ FontActivate
  \/ FontDelete

SpecFonts == CodecInit /\ [][FontsNext]_vars

\* Theme requests, interleaved at their awaits.
ThemesNext ==
  \/ ThemeRequest
  \/ ThemeActivateStep
  \/ ThemeDeleteStep

SpecThemes == CodecInit /\ [][ThemesNext]_vars

\* Requests to the settings routes.
SettingsNext ==
  \/ SettingPut
  \/ SettingDelete
  \/ SettingsReset

SpecSettings == CodecInit /\ [][SettingsNext]_vars

\* One opening of the password dialog, its submissions taken step by step.
SubmitNext ==
  \/ Step /\ OpenDocument /\ ux.pc = "start" /\ UNCHANGED << cx, fx, ux >>
  \/ Step /\ SubmitStart
  \/ Step /\ SubmitFinish

SpecSubmit == Init /\ [][SubmitNext]_vars

\* C1: round trip: decryptText(encryptText(P, K), K) returns exactly P.
C1_RoundTrip ==
  (cx.pc = "decrypted" /\ cx.tried = cx.password)
    => (cx.res.ok /\ cx.res.text = cx.plaintext)

\* C2: wrong password: decryptText with a password B different from the
\* password A the envelope was made with always fails.
C2_WrongPasswordFails ==
  (cx.pc = "decrypted" /\ cx.tried # cx.password) => ~cx.res.ok

\* C3: tamper detection: after any single bit of the envelope's ciphertext
\* or iv is changed, decryptText with the correct password fails.
C3_TamperFails ==
  cx.pc = "tampered" => ~cx.res.ok

\* The text is Markdown (not JSON), or a JSON object that lacks a required
\* property, or a JSON object whose algorithm is not 'AES-256-GCM'.
NotAnEnvelopeText(text) ==
  \/ text.t = "raw"
  \/ /\ text.t = "object"
     /\ \/ \E f \in RequiredFields : text.o[f] = Undefined
        \/ text.o.algorithm # ALG_AES_256_GCM

\* C4: every envelope a save writes carries a salt and an iv drawn in that
\* save, and shares its salt and its iv with no envelope that was on disk or
\* written before it.
C4_FreshSaltAndIv ==
  \A j \in 1..Len(written) :
    /\ written[j].fresh
    /\ \A i \in 1..(j - 1) :
         written[i].salt # written[j].salt /\ written[i].iv # written[j].iv

\* An envelope was opened, a manual save and then an auto-save each wrote an
\* envelope over it.
C4_Witness ==
  Len(written) = 3 /\ last.op = "autosave" /\ last.file # NoFile

\* C5: when handleOpenDocument reads a file holding an envelope made under
\* the default password, it does not open the password dialog, the document
\* content is the text decryptText returns for that envelope, isEncrypted is
\* true and the session password is the default password.
C5_FallbackFirstOpen ==
  (last.op = "open" /\ fmeta[last.file] = getDefaultPassword) =>
    /\ ~last.dialogOpened
    /\ doc.content = decryptText(parseEncryptedFromSave(last.read).data,
                                  getDefaultPassword, oracle).text
    /\ doc.filePath = last.file
    /\ doc.isEncrypted
    /\ currentPassword = getDefaultPassword

\* a.md, Markdown at the start, was saved in default-key mode by the editor
\* and then opened.
C5_Witness ==
  /\ last.op = "open" /\ last.file = "a.md"
  /\ fmeta["a.md"] = getDefaultPassword
  /\ last.fallbackOk /\ doc.isEncrypted

\* C6: an open operation opens the password dialog only after the content
\* was classified as an envelope and decryptText with the default password
\* failed, and never for a file that is not an envelope.
C6_DialogOnlyAfterFailedFallback ==
  (last.op = "open" /\ last.dialogOpened) =>
    /\ last.classified /\ last.tried /\ ~last.fallbackOk
    /\ ~NotAnEnvelopeText(last.read)

\* C7: when the content of the opened file is not an envelope, the document
\* content is that content, isEncrypted is false, the session password is
\* null and decryptText was not called.
C7_PlaintextOpen ==
  (last.op = "open" /\ NotAnEnvelopeText(last.read)) =>
    /\ doc.content = last.read
    /\ ~doc.isEncrypted
    /\ currentPassword = NullPassword
    /\ ~last.tried

\* C8: format rejection: isEncryptedData and parseEncryptedFromSave report
\* 'not an envelope' for Markdown text, for JSON lacking a required field and
\* for JSON with an algorithm other than 'AES-256-GCM'.
C8_FormatRejection ==
  (fx.pc = "classified" /\ NotAnEnvelopeText(fx.text))
    => (~fx.isEncrypted /\ fx.parsed.isNull)

\* C9: parseEncryptedFromSave returns null when the text is not JSON, when it
\* is JSON that is not an object, and when any one of algorithm, version,
\* salt, iv, encrypted is missing.
C9_ParseNullOnMissing ==
  (/\ fx.pc = "classified"
   /\ \/ fx.text.t # "object"
      \/ \E f \in RequiredFields : fx.text.o[f] = Undefined)
    => fx.parsed.isNull

\* C10 as stated: parseEncryptedFromSave(formatEncryptedForSave(e)) equals e.
C10_RoundTripExact ==
  fx.pc = "roundtrip" => (~fx.parsed.isNull /\ fx.parsed.data = fx.envelope)

\* C10 as amended: the parsed object is not null, agrees with e on encrypted,
\* salt, iv, algorithm and version, and carries in addition the createdAt
\* timestamp that formatEncryptedForSave adds.
C10_RoundTripFields ==
  fx.pc = "roundtrip" =>
    /\ ~fx.parsed.isNull
    /\ \A f \in RequiredFields : fx.parsed.data[f] = fx.envelope[f]
    /\ fx.parsed.data.createdAt = fx.now
    /\ fx.parsed.data.createdAt # Undefined

C10_Witness ==
  fx.pc = "roundtrip" /\ fx.envelope.encrypted # Undefined /\ ~fx.parsed.isNull

\* C11: while the password dialog waits for the password of an open, a
\* submission of a password other than the envelope's reports an error and
\* leaves the dialog (its pending open and envelope), the document and the
\* session password as they were, however many submissions failed before;
\* a submission of the envelope's password closes the dialog and opens the
\* pending file as an encrypted document with that session password.
C11_RetryWithoutLockout ==
  [][(dialog.isOpen /\ dialog.pendingAction.type = "open" /\ last'.op = "submit") =>
       IF last'.env # 0 /\ last'.password = written[last'.env].pw
       THEN /\ ~dialog'.isOpen
            /\ doc'.filePath = dialog.pendingAction.file
            /\ doc'.isEncrypted
            /\ currentPassword' = last'.password
       ELSE /\ last'.err # ""
            /\ dialog' = dialog
            /\ doc' = doc
            /\ currentPassword' = currentPassword]_vars

\* Two submissions in a row failed and the next one opened the document.
C11_Witness ==
  last.op = "submit" /\ last.fallbackOk /\ last.fails >= 2 /\ ~dialog.isOpen

\* C12: an envelope saved in custom mode with a password W other than the
\* default one makes handleOpenDocument open the password dialog, and after W
\* is submitted the document content is the text that was saved, isEncrypted
\* is true, isModified is false and the session password is W.
C12_CustomSaveThenOpen ==
  /\ (/\ last.op = "open" /\ last.env # 0
      /\ written[last.env].pw # getDefaultPassword) => last.dialogOpened
  /\ (/\ last.op = "submit" /\ last.env # 0
      /\ written[last.env].pw # getDefaultPassword
      /\ last.password = written[last.env].pw) =>
        /\ doc.content = written[last.env].plain
        /\ doc.isEncrypted
        /\ ~doc.isModified
        /\ currentPassword = written[last.env].pw

\* C13: an open that ends in the password dialog leaves the document and the
\* session password as they were, and cancelling the dialog closes it, drops
\* the pending action and the held envelope and again leaves the document
\* (content, file name, file handle, isEncrypted, isModified) and the session
\* password as they were.
C13_CancelExposesNothing ==
  [][/\ (last'.op = "open" /\ last'.dialogOpened) =>
          (doc' = doc /\ currentPassword' = currentPassword)
     /\ (last'.op = "cancel") =>
          /\ ~dialog'.isOpen
          /\ dialog'.pendingAction.type = "null"
          /\ dialog'.encryptedData.isNull
          /\ doc' = doc
          /\ currentPassword' = currentPassword]_vars

\* a.md is the open document, the open of an envelope asked for a password
\* and the dialog was cancelled.
C13_Witness ==
  /\ last.op = "cancel" /\ ~dialog.isOpen
  /\ doc.filePath = "a.md" /\ last.env = 0
  /\ \E i \in 1..Len(written) : written[i].pw # getDefaultPassword

\* C14: a save in plain ('normal') mode that writes a file writes to it
\* exactly the current document content, unencrypted.
C14_PlainSaveWritesContent ==
  (last.op \in {"save", "autosave"} /\ last.mode = "normal" /\ last.file # NoFile) =>
    files[last.file] = FileWrite(doc.content)

\* C15: when the file a plain save has just written is opened, the document
\* content is the text that was saved, isEncrypted is false and the password
\* dialog is not opened.
C15_PlainSaveThenReopen ==
  [][(/\ last.op = "save" /\ last.mode = "normal" /\ last.file # NoFile
      /\ last'.op = "open" /\ last'.file = last.file) =>
       /\ doc'.content = doc.content
       /\ ~doc'.isEncrypted
       /\ ~last'.dialogOpened]_vars

\* C16: a save in custom mode with an empty or absent password writes
\* nothing, and no envelope on disk was made from an empty or absent
\* password.
C16_MissingPassword ==
  /\ \A i \in 1..Len(written) : written[i].pw \notin {Raw(<< >>), NullPassword}
  /\ (/\ last.op \in {"save", "call"} /\ last.mode = "custom"
      /\ last.password \in {Raw(<< >>), NullPassword}) => last.file = NoFile

\* C17: after a custom-mode save with password W has written the file, W is
\* the session password, an auto-save of the document that follows encrypts
\* with W, and a user-triggered save that follows does not ask the user (it
\* does not open the save dialog).
C17_SessionPasswordReused ==
  [][(last.op = "save" /\ last.mode = "custom" /\ last.file # NoFile) =>
       /\ currentPassword = last.password
       /\ (last'.op = "autosave" /\ last'.file # NoFile) =>
            /\ last'.mode = "custom"
            /\ last'.password = last.password
            /\ fmeta'[last'.file] = last.password
       /\ (last'.op = "request") => ~showSaveDialog']_vars

\* C18: after every completed open and every save that wrote a file,
\* currentDocument.isEncrypted is true exactly when the document's file
\* holds an envelope.
C18_IsEncryptedTracksFile ==
  (/\ \/ last.op = "open" /\ ~last.dialogOpened
      \/ last.op = "submit" /\ last.fallbackOk
      \/ last.op \in {"save", "autosave"} /\ last.file # NoFile
   /\ doc.filePath # NoFile) =>
    (doc.isEncrypted <=> ~parseEncryptedFromSave(FileText(files[doc.filePath])).isNull)

\* ------------------------------------------------- what leaves the memory
\* The state the store hands to the persist middleware: the document and the
\* editor's view mode and settings (the session password lives in a ref of
\* EditorPage, outside the store).
StoreState ==
  [isLoading       |-> FALSE,
   currentDocument |-> doc,
   viewMode        |-> << 115, 112, 108, 105, 116 >>,                 \* 'split'
   settings        |-> [theme_name  |-> << 100, 101, 102, 97, 117, 108, 116 >>,
                        font_family |-> << 73, 110, 116, 101, 114 >>,
                        font_size   |-> 14,
                        auto_save   |-> TRUE,
                        sync_scroll |-> TRUE]]

\* partialize of the persist options: what is kept under 'textx-app-store'.
partialize(state) == [viewMode |-> state.viewMode, settings |-> state.settings]

\* The texts of the persisted entry.
PersistedTexts ==
  LET entry == partialize(StoreState)
  IN {entry.viewMode, entry.settings.theme_name, entry.settings.font_family}

\* needle occurs in hay (sequences of code units or of bytes).
Contains(hay, needle) ==
  \E i \in 0..(Len(hay) - Len(needle)) : SubSeq(hay, i + 1, i + Len(needle)) = needle

\* The bytes on disk show the password pw: a text file holds its encoding,
\* or a property of a JSON object holds it as text or, read as base64, holds
\* its encoding.
ShowsPassword(bytes, pw) ==
  LET enc == stringToArrayBuffer(pw).u
  IN IF bytes.t = "raw" THEN Contains(bytes.u, enc)
     ELSE IF bytes.t # "object" THEN FALSE
     ELSE \E f \in EnvelopeFields :
            /\ bytes.o[f] # Undefined
            /\ \/ Contains(bytes.o[f], pw.u)
               \/ LET b == base64ToArrayBuffer(bytes.o[f])
                  IN b.ok /\ Contains(b.bytes, enc)

\* The passwords of the session: the session password and every password a
\* save of the session encrypted with.
SessionPasswords ==
  {pw \in {currentPassword} \cup {written[i].pw : i \in 1..Len(written)} :
     pw # NullPassword /\ pw.u # << >>}

\* C19: no file on disk, no property of an envelope on disk and no text of
\* the persisted store entry holds a password of the session, as text or
\* encoded.  (The derived key is a non-extractable CryptoKey: the program has
\* no bytes of it to write, and the model keeps it as an opaque value.)
C19_PasswordNeverPersisted ==
  \A pw \in SessionPasswords :
    /\ \A f \in FileNames : ~ShowsPassword(files[f], pw)
    /\ \A t \in PersistedTexts : ~Contains(t, pw.u)

\* A custom-mode save with the session password has written an envelope, and
\* a plaintext file is on disk as well.
C19_Witness ==
  /\ currentPassword \in UserPasswords
  /\ last.op = "save" /\ last.mode = "custom" /\ last.file # NoFile
  /\ files[last.file].t = "object"
  /\ \E f \in FileNames : files[f].t = "raw"

\* C20: after handleNewDocument, and after an open that loaded a plaintext
\* document, the session password is null; after an open that loaded an
\* envelope it is the password that decrypted this envelope.
C20_PasswordScopedToDocument ==
  /\ last.op = "new" => currentPassword = NullPassword
  /\ (last.op = "open" /\ ~last.dialogOpened /\ ~doc.isEncrypted) =>
       currentPassword = NullPassword
  /\ (last.op = "open" /\ ~last.dialogOpened /\ doc.isEncrypted) =>
       decryptText(parseEncryptedFromSave(last.read).data, currentPassword, oracle).ok

C22_DeriveKeyRejects ==
  (ux.pc = "derived" /\ (ux.tried.u = << >> \/ ux.saltLength < 16)) => ~ux.ok

\* C23: an envelope whose version is not '1.0' is refused by parsing or by
\* decryption, and serializing an envelope keeps the version it has.
C23_UnknownVersionRejected ==
  ux.pc = "version" =>
    /\ ux.version # VERSION_1_0 => ~ux.ok
    /\ ux.version # Undefined => ux.serialized = ux.version

\* C24: decryptText fails for every envelope whose algorithm is absent or is
\* not 'AES-256-GCM', whatever the password, and the failure is the one of
\* the algorithm test, which comes before base64 decoding, key derivation and
\* decryption.
C24_AlgorithmMustMatch ==
  ux.pc = "algorithm" => (~ux.ok /\ ux.cause = "unsupported algorithm")

\* decryptText was called with the envelope's own password on an envelope
\* without algorithm whose ciphertext is malformed as well.
C24_Witness ==
  /\ ux.pc = "algorithm" /\ ux.algorithm = Undefined /\ ux.malformed
  /\ ux.tried = cx.password /\ ~ux.ok

\* The criteria of the strength score a text satisfies, and the suggestion
\* that belongs to each of the first five.
SatisfiedCriteria(u) ==
  {c \in {"length8", "upper", "lower", "digit", "symbol", "length12"} :
     \/ c = "length8" /\ Len(u) >= 8
     \/ c = "upper" /\ HasUpper(u)
     \/ c = "lower" /\ HasLower(u)
     \/ c = "digit" /\ HasDigit(u)
     \/ c = "symbol" /\ HasSymbol(u)
     \/ c = "length12" /\ Len(u) >= 12}

SuggestionOf(c) ==
  IF c = "length8" THEN "at least 8 characters"
  ELSE IF c = "upper" THEN "add an uppercase letter"
  ELSE IF c = "lower" THEN "add a lowercase letter"
  ELSE IF c = "digit" THEN "add a digit"
  ELSE "add a special character"

\* The result is the one the criteria give: the score counts the satisfied
\* criteria, isValid tells score >= 3, and the suggestions are those of the
\* unsatisfied criteria among the first five, one each.
ScoredByCriteria(u, result) ==
  LET unsatisfied == {"length8", "upper", "lower", "digit", "symbol"} \ SatisfiedCriteria(u)
  IN /\ result.score = Cardinality(SatisfiedCriteria(u))
     /\ result.score \in 0..6
     /\ result.isValid <=> result.score >= 3
     /\ Len(result.suggestions) = Cardinality(unsatisfied)
     /\ {result.suggestions[i] : i \in 1..Len(result.suggestions)}
          = {SuggestionOf(c) : c \in unsatisfied}

\* C25 as stated: for every password the result of validatePasswordStrength
\* is the one the six criteria give.
C25_ScoreAllPasswords ==
  ux.pc = "strength" =>
    ScoredByCriteria(IF ux.password = NullPassword THEN << >> ELSE ux.password.u,
                     ux.result)

\* C25, amended: for every non-empty password the result is the one the six
\* criteria give; for the empty password and for null the score is 0, isValid
\* is false and the one suggestion is to enter a password.
C25_ScoreNonEmptyPasswords ==
  ux.pc = "strength" =>
    IF ux.password = NullPassword \/ ux.password.u = << >>
    THEN ux.result = [score |-> 0, suggestions |-> << "enter a password" >>,
                      isValid |-> FALSE]
    ELSE ScoredByCriteria(ux.password.u, ux.result)

\* A password of 12 characters of all kinds got the score 6.
C25_Witness ==
  /\ ux.pc = "strength" /\ ux.password # NullPassword
  /\ Len(ux.password.u) >= 12 /\ ux.result.score = 6

\* C26: a non-empty password whose score is below 3 is passed on by the
\* password form of every mode of the dialog (when the confirmation, where one
\* is asked for, repeats it).
C26_StrengthIsAdvisory ==
  (/\ ux.pc = "submit"
   /\ ux.value.u # << >>
   /\ getDialogConfig(ux.mode).confirmMode => ux.confirmPassword = ux.value
   /\ ~validatePasswordStrength(ux.value).isValid) => ux.submitted

\* The characters of the selected classes: letters, digits and the symbols.
ClassChars(options) ==
  (IF options.includeUppercase THEN 65..90 ELSE {})
    \cup (IF options.includeLowercase THEN 97..122 ELSE {})
    \cup (IF options.includeNumbers THEN 48..57 ELSE {})
    \cup (IF options.includeSymbols THEN {SYMBOLS[i] : i \in 1..Len(SYMBOLS)} ELSE {})

\* The call threw when no class is selected; otherwise it returned a text of
\* length characters, each of a selected class and, under excludeSimilar,
\* none of them one of I, O, i, l, o, 0, 1.
GeneratedAsAsked(length, options, result) ==
  IF ClassChars(options) = {} THEN result.threw
  ELSE /\ ~result.threw
       /\ Len(result.password) = length
       /\ \A i \in 1..Len(result.password) :
            /\ result.password[i] \in ClassChars(options)
            /\ options.excludeSimilar =>
                 result.password[i] \notin {73, 79, 105, 108, 111, 48, 49}

\* C27 as stated: for every length and every choice of classes the call
\* returns a password as asked, and throws when no class is selected.
C27_GenerateEveryLength ==
  ux.pc = "generated" => GeneratedAsAsked(ux.length, ux.options, ux.result)

\* C27, amended: the same for every length up to the 65536 bytes that
\* getRandomValues fills; for a longer one, with a class selected, the call
\* throws.
C27_GenerateUpToQuota ==
  ux.pc = "generated" =>
    IF ux.length <= RANDOM_QUOTA
    THEN GeneratedAsAsked(ux.length, ux.options, ux.result)
    ELSE ux.result.threw

\* A password of three characters was generated under excludeSimilar from
\* the letters and digits, with the random byte 8 among the bytes.
C27_Witness ==
  /\ ux.pc = "generated" /\ ux.length = 3 /\ ~ux.result.threw
  /\ ux.options.excludeSimilar /\ ux.options.includeUppercase
  /\ \E i \in 1..3 : ux.result.password[i] = 74

\* C28: at most one call of handlePasswordSubmit is waiting for its crypto
\* operation at any time, and onSuccess is called at most once for one
\* opening of the dialog.
C28_OneOperationAtATime ==
  ux.pc = "manager" => (Len(ux.pending) <= 1 /\ ux.successes <= 1)

\* C29: when the auto-save timer fires and writes a file, it writes an
\* envelope encrypted under the session password if that file held an
\* envelope, and plaintext if it held plaintext.
C29_AutoSaveKeepsEncryption ==
  [][(last'.op = "autosave" /\ last'.file # NoFile) =>
       LET f == last'.file
           wasEnvelope == ~parseEncryptedFromSave(FileText(files[f])).isNull
           isEnvelope == ~parseEncryptedFromSave(FileText(files'[f])).isNull
       IN /\ wasEnvelope => (isEnvelope /\ fmeta'[f] = currentPassword)
          /\ ~wasEnvelope => ~isEnvelope]_vars

\* C30: when an auto-save has written a file and cleared isModified, what it
\* wrote (as plaintext, or inside the envelope) is the content the document
\* had when the timer fired.
C30_AutoSaveWritesEditorContent ==
  [][(last'.op = "autosave" /\ last'.file # NoFile /\ ~doc'.isModified) =>
       IF parseEncryptedFromSave(FileText(files'[last'.file])).isNull
       THEN files'[last'.file] = FileWrite(doc.content)
       ELSE /\ Len(written') = Len(written) + 1
            /\ written'[Len(written')].plain = doc.content]_vars


\* C31: when the auto-save timer scheduled for one document fires while
\* another document (opened or new) is the current one, the current
\* document's isModified and lastSaved stay as they are, and an envelope the
\* auto-save writes is under the password of the envelope its file held,
\* not under the session password of the current document.
C31_AutoSaveLeavesOtherDocument ==
  [][(last'.op = "autosave" /\ doc.filePath # timer.snap.filePath) =>
       /\ doc'.isModified = doc.isModified
       /\ doc'.lastSaved = doc.lastSaved
       /\ (last'.file # NoFile /\ last'.mode = "custom") =>
            last'.password = fmeta[last'.file]]_vars


\* C32: a save in an encrypting mode that writes no file leaves the session
\* password and the document's isEncrypted, isModified and lastSaved as they
\* were before it.
C32_FailedSaveChangesNothing ==
  [][(/\ last'.op \in {"save", "call", "autosave"}
      /\ last'.mode \in {"default", "custom"}
      /\ last'.err = ""
      /\ last'.file = NoFile) =>
       /\ currentPassword' = currentPassword
       /\ doc'.isEncrypted = doc.isEncrypted
       /\ doc'.isModified = doc.isModified
       /\ doc'.lastSaved = doc.lastSaved]_vars


\* C33: in every state of the store, isModified = false implies that the
\* document's content is the content it had at the last open, new document
\* or save; setDocumentContent with the content the document already has
\* leaves a true isModified true.
C33_IsModifiedSound ==
  (ux.pc = "store" /\ ~ux.doc.isModified) => ux.doc.content = ux.base


\* C34: when the save dialog's save passes the dialog's checks and writes no
\* file, the dialog stays open.
C34_DialogClosesOnlyWhenSaved ==
  [][(showSaveDialog /\ last'.op = "save" /\ last'.err = "" /\ last'.file = NoFile)
       => showSaveDialog']_vars


\* C35: an open request for an encrypted file that carries no password, or a
\* password the file does not decrypt with, gets an error response without
\* content, and recent_documents is the same after it as before.
C35_FailedOpenLeavesTable ==
  [][(/\ ux'.pc = "routes"
      /\ ux'.resp.route = "open"
      /\ LET s == Server(ux'.legacy)
             file == s.disk[ux'.resp.filePath]
             password == ux'.resp.password
         IN /\ isEncryptedFile(file)
            /\ \/ password = NullPassword
               \/ password.u = << >>
               \/ ~serverDecryptText(file.o, password, s.sorc, s.legacy).ok) =>
       /\ ux'.resp.status >= 400
       /\ ux'.resp.content = NoContent
       /\ ux'.recent = Server(ux'.legacy).recent]_vars

\* An open request with a password failed on a file that has a row in
\* recent_documents.
C35_Witness ==
  /\ ux.pc = "routes"
  /\ ux.resp.route = "open"
  /\ ux.resp.encrypted
  /\ ux.resp.status = 400
  /\ Truthy(ux.resp.password.u)
  /\ ux.recent[ux.resp.filePath].present


\* The texts a and b have a part (one character or more) in common.
SharesPart(a, b) == \E i \in 1..Len(a), j \in 1..Len(b) : a[i] = b[j]

\* C36: after a request that opened or saved a document as encrypted, the
\* document's row of recent_documents holds no part of its plaintext.
C36_NoPlaintextInTable ==
  (/\ ux.pc = "routes"
   /\ ux.resp.route \in {"open", "save"}
   /\ ux.resp.status = 200
   /\ ux.resp.encrypted) =>
    LET plain == IF ux.resp.route = "save" THEN ux.resp.sent ELSE ux.resp.content
        row == ux.recent[ux.resp.filePath]
    IN row.present => ~SharesPart(row.preview_text.u, plain.u)


\* The JSON text file as the client reads it: the properties the client
\* looks at, undefined where the file has none.
ReadByClient(file) ==
  JsonText(file.t, [f \in EnvelopeFields |-> PropOf(file.o, f)])

\* C37: every file an encrypted save of the server wrote has a salt and is an
\* envelope for the client's parseEncryptedFromSave, and an open request for
\* a file holding an envelope the client saved, with the password it was
\* saved under, succeeds.
C37_OneEnvelopeScheme ==
  ux.pc = "routes" =>
    /\ (ux.resp.route = "save" /\ ux.resp.status = 200 /\ ux.resp.encrypted) =>
         LET file == ux.disk[ux.resp.filePath]
         IN /\ Truthy(PropOf(file.o, "salt"))
            /\ ~parseEncryptedFromSave(ReadByClient(file)).isNull
    /\ (/\ ux.resp.route = "open"
        /\ ux.disk[ux.resp.filePath] = ServerStart(ux.legacy).disk["b.md"]
        /\ ux.resp.password = Raw(<< 83, 101, 99, 114, 101, 116 >>)) =>
         ux.resp.status = 200


\* C38: after any requests to the font routes, every system font of the
\* default data is still a row of fonts, a system font with the name and
\* the family it had.
C38_SystemFontsStay ==
  ux.pc = "fonts" =>
    \A d \in DefaultFonts :
      \E r \in ux.fonts :
        /\ r.id = d.id
        /\ r.is_system_font
        /\ r.name = d.name
        /\ r.family = d.family


\* C39: from the default data, whenever every activate and delete request
\* sent so far has been answered, exactly one row of themes is active.
C39_OneActiveTheme ==
  (ux.pc = "themes" /\ \A c \in Clients : ux.reqs[c].kind = "idle") =>
    Cardinality({r \in ux.themes : r.is_active}) = 1

\* Two activate requests overlapped: one was refused its transaction, the
\* other made a theme other than 'default' the active one.
C39_Witness ==
  /\ ux.pc = "themes"
  /\ ux.reqs[1].kind = "idle" /\ ux.reqs[1].status = 200
  /\ ux.reqs[2].kind = "idle" /\ ux.reqs[2].status = 500
  /\ \E r \in ux.themes : r.is_active /\ r.name = "dark"


\* C40: after a reset request, every key it reset that has a default is in
\* app_settings with its default value, and the request reported success.
C40_ResetRestoresDefaults ==
  (ux.pc = "settings" /\ ux.resp.route = "reset") =>
    /\ ux.resp.status = 200
    /\ \A k \in ux.resp.keys \cap DOMAIN DefaultSettings :
         ux.table[k] = DefaultSettings[k]

====
